---- MODULE Spec2Model ----
(***************************************************************************)
(* The grid pathfinding engine of rgb-matrix-pi: the eight find_path       *)
(* generators of src/algorithms and the call main.py makes to them.        *)
(* One behaviour is one call of one algorithm; one step is one pull        *)
(* (next()) on the generator, which runs the code from the yield it is     *)
(* suspended at to the next yield.                                         *)
(***************************************************************************)
EXTENDS Integers, Sequences, FiniteSets, TLC

\* Largest grid width and height explored.
MaxDim == 3
\* Random walk branches at every step: it is explored on grids of at most
\* this many cells.
MaxWalkCells == 4
\* Largest grid width and height on which _jump is called on its own.
MaxJumpDim == 5
\* Two generators are interleaved on grids of at most this many cells.
MaxPairCells == 6
\* jump point search on a grid longer than a jump: its sides
MaxCorridorWidth == 3
MaxCorridorLength == 6
\* snake: the largest logical grid, and the food eaten in one game
MaxSnakeGrid == 5
MaxScore == 2
\* socket listener: the lines a client sends on one connection
MaxLines == 3
\* HID listener: the reports read with data in one run
MaxReports == 3
\* stdin listener: the arrow presses typed in one run
MaxPresses == 17
\* stdin listener: the length of the key pattern the typist repeats
MaxPattern == 2

\* Python's None (the parent of start, the data of 'no_path').
None == <<>>

Algorithms ==
    {"bfs", "dfs", "dijkstra", "astar", "greedy", "bidirectional", "jps", "random_walk"}

VARIABLES
    alg,              \* the algorithm object find_path is called on
    start, end,       \* arguments of find_path
    width, height,    \* arguments of find_path (the matrix size in main.py)
    obstacles,        \* the obstacle set the caller holds and draws
    pc,               \* where the generator is suspended: "call" before the
                      \* call, "start" before the first pull, the type of the
                      \* event last yielded, "done" once it has returned,
                      \* "call_failed" / "raised" after an exception
    exception,        \* the exception that ended the call, "" if none
    events,           \* the events yielded so far, in order
    queue,            \* bfs queue / dfs stack / bidirectional queue_forward
    visited,          \* visited / visited_forward
    parent,           \* parent / parent_forward
    pq,               \* the heap of dijkstra, astar, greedy, jps
    cost,             \* dijkstra cost / astar and jps g_score
    current,          \* local current
    current_g,        \* local current_cost / current_g
    queue_backward, visited_backward, parent_backward,
    step,             \* random walk: the for loop's step
    solo_events,      \* the events of the run that has returned, kept by
                      \* the caller when it calls find_path again
    active,           \* the generator the caller pulls: "solo" for the only
                      \* one, "A" or "B" when it holds two
    other,            \* the frame of the caller's other generator, suspended
    direction,        \* _jump called on its own: its direction argument
    jump_result,      \* _jump called on its own: the value returned
    listener,         \* the StdinListener object and its reader thread
    game,             \* the game loop thread that calls consume_direction
    typist,           \* the person at the keyboard: the key pattern typed
                      \* and the presses that came while 16 were pending
    snake_game,       \* the SnakeGame object of snake_runner
    sock,             \* the SocketListener object, its connection and thread
    hid               \* the HIDListener object, its device and thread

args == <<alg, start, end, width, height, obstacles>>
locals == <<queue, visited, parent, pq, cost, current, current_g,
            queue_backward, visited_backward, parent_backward, step>>
others == <<solo_events, active, other, direction, jump_result,
            listener, game, typist,
            snake_game, sock, hid>>
vars == <<args, pc, exception, events, locals, others>>

----------------------------------------------------------------------------
\* Helpers

Abs(n) == IF n < 0 THEN -n ELSE n

Range(s) == {s[i] : i \in 1..Len(s)}

Reverse(s) == [i \in 1..Len(s) |-> s[Len(s) + 1 - i]]

\* d[k] = v on a dict
Put(d, k, v) == [x \in (DOMAIN d) \cup {k} |-> IF x = k THEN v ELSE d[x]]

\* d.get(k)
Get(d, k) == IF k \in DOMAIN d THEN d[k] ELSE None

InBounds(c, w, h) == 0 <= c[1] /\ c[1] < w /\ 0 <= c[2] /\ c[2] < h

\* mutant: the last direction is missing from the list
directions_NoLast == << <<0, 1>>, <<1, 0>>, <<0, -1>> >>

directions == << <<0, 1>>, <<1, 0>>, <<0, -1>>, <<-1, 0>> >>

\* mutant: the bounds test admits nx = width and ny = height
get_neighbors_OffByOne(c, w, h) ==
    SelectSeq([i \in 1..Len(directions) |->
                  <<c[1] + directions[i][1], c[2] + directions[i][2]>>],
              LAMBDA n : 0 <= n[1] /\ n[1] <= w /\ 0 <= n[2] /\ n[2] <= h)

get_neighbors(c, w, h) ==
    SelectSeq([i \in 1..Len(directions) |->
                  <<c[1] + directions[i][1], c[2] + directions[i][2]>>],
              LAMBDA n : InBounds(n, w, h))

manhattan_distance(point1, point2) ==
    Abs(point1[1] - point2[1]) + Abs(point1[2] - point2[2])

\* node, parent[node], parent[parent[node]], ... until None
RECURSIVE ParentChain(_, _)
ParentChain(node, par) ==
    IF node = None THEN <<>>
    ELSE <<node>> \o ParentChain(par[node], par)

\* mutant: path.reverse() is missing
ReconstructPath_NoReverse(e, par) == ParentChain(e, par)

\* the path reconstruction loop shared by bfs, dfs, dijkstra, astar, greedy,
\* random_walk
ReconstructPath(e, par) == Reverse(ParentChain(e, par))

----------------------------------------------------------------------------
\* The arguments of a call

Cells(w, h) == (0..(w - 1)) \X (0..(h - 1))

\* Two coordinates outside every grid: one next to cell (0,0), one with no
\* in-bounds neighbour.
OutCells == {<<-1, 0>>, <<-2, 0>>}

\* The obstacle sets: none, or one full vertical wall.
VerticalWall(x, h) == {<<x, y>> : y \in 0..(h - 1)}

ObstacleSets(w, h) == {{}} \cup {VerticalWall(x, h) : x \in 0..(w - 1)}

\* the locals of a generator whose body has not run, in the order of locals
FreshLocals == << <<>>, {}, <<>>, <<>>, <<>>, None, 0, <<>>, {}, <<>>, 0 >>

\* the frame of a generator: what a suspended generator keeps
Frame(a, p, x, ev, l) ==
    [alg |-> a, pc |-> p, exception |-> x, events |-> ev, locals |-> l]

\* ---- stdin_listener.py: StdinListener ----

\* deque(maxlen=16)
maxlen == 16

Keys == {"up", "down", "left", "right"}

\* StdinListener.ESCAPE_MAP, "ESC" for the character \x1b
ESCAPE_MAP ==
    [seq \in {"ESC[A", "ESC[B", "ESC[C", "ESC[D",
              "ESCOA", "ESCOB", "ESCOC", "ESCOD"} |->
        CASE seq \in {"ESC[A", "ESCOA"} -> "up"
          [] seq \in {"ESC[B", "ESCOB"} -> "down"
          [] seq \in {"ESC[C", "ESCOC"} -> "right"
          [] seq \in {"ESC[D", "ESCOD"} -> "left"]

\* StdinListener(): the fields after __init__; thread is the position of
\* the reader thread, "none" before start()
NewListener ==
    [thread |-> "none", running |-> FALSE, key_states |-> {},
     last_direction |-> "None", direction_queue |-> <<>>,
     event_queue |-> <<>>]

\* the game loop before its first consume_direction call
NewGame == [pc |-> "idle", new_dir |-> "", consumed |-> 0]

\* a search runs: no listener is looked at and no game is played
NoInput ==
    /\ listener = NewListener
    /\ game = NewGame
    /\ typist = [pattern |-> <<>>, lost |-> 0]
    /\ snake_game = None
    /\ sock = None
    /\ hid = None


\* the caller holds no other generator
NoFrame == Frame("", "none", "", <<>>, FreshLocals)

\* one call of find_path and nothing else
Single ==
    /\ solo_events = <<>>
    /\ active = "solo"
    /\ other = NoFrame
    /\ direction = None
    /\ jump_result = None
    /\ NoInput

Init ==
    /\ Single
    /\ alg \in Algorithms
    /\ width \in 0..MaxDim
    /\ height \in 0..MaxDim
    /\ alg = "random_walk" => width * height <= MaxWalkCells
    /\ start \in Cells(width, height) \cup OutCells
    /\ end \in Cells(width, height) \cup OutCells
    /\ obstacles \in ObstacleSets(width, height)
    /\ pc = "call"
    /\ exception = ""
    /\ events = <<>>
    /\ queue = <<>>
    /\ visited = {}
    /\ parent = <<>>
    /\ pq = <<>>
    /\ cost = <<>>
    /\ current = None
    /\ current_g = 0
    /\ queue_backward = <<>>
    /\ visited_backward = {}
    /\ parent_backward = <<>>
    /\ step = 0

----------------------------------------------------------------------------
\* Calling find_path

\* find_path(start, end, width, height): the generator object is created and
\* no line of the body has run.
Call ==
    /\ pc = "call"
    /\ pc' = "start"
    /\ UNCHANGED <<args, others, exception, events, locals>>

\* main.py passes the obstacle set as a fifth argument, which no find_path
\* accepts: the call raises TypeError before a generator exists.
VisualizeCall ==
    /\ pc = "call"
    /\ pc' = "call_failed"
    /\ exception' = "TypeError"
    /\ UNCHANGED <<args, others, events, locals>>

\* yield (state_type, data)
Yield(state_type, data) ==
    /\ events' = Append(events, <<state_type, data>>)
    /\ pc' = state_type
    /\ exception' = exception

\* A pull on a generator suspended at its terminal yield: the body returns
\* (StopIteration) and nothing is yielded.
Return ==
    /\ pc \in {"found", "no_path"}
    /\ pc' = "done"
    /\ UNCHANGED <<args, others, exception, events, locals>>

----------------------------------------------------------------------------
\* BFS

\* mutant: queue.pop() in place of queue.popleft()
BFSLoop_PopRight(q, v, p) ==
    /\ visited' = v
    /\ parent' = p
    /\ IF q # <<>>
       THEN /\ current' = q[Len(q)]
            /\ queue' = SubSeq(q, 1, Len(q) - 1)
            /\ Yield("exploring", q[Len(q)])
       ELSE /\ current' = current
            /\ queue' = q
            /\ Yield("no_path", None)

\* while queue: current = queue.popleft(); yield exploring / yield no_path
BFSLoop(q, v, p) ==
    /\ visited' = v
    /\ parent' = p
    /\ IF q # <<>>
       THEN /\ current' = Head(q)
            /\ queue' = Tail(q)
            /\ Yield("exploring", Head(q))
       ELSE /\ current' = current
            /\ queue' = q
            /\ Yield("no_path", None)

\* mutant: a coordinate is marked visited when it is expanded, not when it
\* is inserted
RECURSIVE BFSExpand_MarkAtExpansion(_, _, _, _, _)
BFSExpand_MarkAtExpansion(ns, cur, q, v, p) ==
    IF ns = <<>> THEN [queue |-> q, visited |-> v \cup {cur}, parent |-> p]
    ELSE LET neighbor == Head(ns) IN
         IF neighbor \notin v
         THEN BFSExpand_MarkAtExpansion(Tail(ns), cur, Append(q, neighbor), v,
                                        Put(p, neighbor, cur))
         ELSE BFSExpand_MarkAtExpansion(Tail(ns), cur, q, v, p)

RECURSIVE BFSExpand(_, _, _, _, _)
BFSExpand(ns, cur, q, v, p) ==
    IF ns = <<>> THEN [queue |-> q, visited |-> v, parent |-> p]
    ELSE LET neighbor == Head(ns) IN
         IF neighbor \notin v
         THEN BFSExpand(Tail(ns), cur, Append(q, neighbor), v \cup {neighbor},
                        Put(p, neighbor, cur))
         ELSE BFSExpand(Tail(ns), cur, q, v, p)

BFSStart ==
    /\ alg = "bfs" /\ pc = "start"
    /\ BFSLoop(<<start>>, {start}, start :> None)
    /\ UNCHANGED <<args, others, pq, cost, current_g, queue_backward, visited_backward,
                   parent_backward, step>>

\* mutant: the return after yield found is missing, the loop goes on
BFSCheckEnd_NoReturn ==
    /\ alg = "bfs" /\ pc = "exploring"
    /\ IF current = end
       THEN /\ events' = Append(events, <<"found", ReconstructPath(end, parent)>>)
            /\ pc' = "visited"
            /\ exception' = exception
       ELSE Yield("visited", current)
    /\ UNCHANGED <<args, others, locals>>

BFSCheckEnd ==
    /\ alg = "bfs" /\ pc = "exploring"
    /\ IF current = end
       THEN Yield("found", ReconstructPath(end, parent))
       ELSE Yield("visited", current)
    /\ UNCHANGED <<args, others, locals>>

BFSNeighbors ==
    /\ alg = "bfs" /\ pc = "visited"
    /\ LET r == BFSExpand(get_neighbors(current, width, height), current,
                          queue, visited, parent)
       IN BFSLoop(r.queue, r.visited, r.parent)
    /\ UNCHANGED <<args, others, pq, cost, current_g, queue_backward, visited_backward,
                   parent_backward, step>>

BFSPull == BFSStart \/ BFSCheckEnd \/ BFSNeighbors

----------------------------------------------------------------------------
\* DFS

\* while stack: current = stack.pop(); yield exploring / yield no_path
DFSLoop(s, v, p) ==
    /\ visited' = v
    /\ parent' = p
    /\ IF s # <<>>
       THEN /\ current' = s[Len(s)]
            /\ queue' = SubSeq(s, 1, Len(s) - 1)
            /\ Yield("exploring", s[Len(s)])
       ELSE /\ current' = current
            /\ queue' = s
            /\ Yield("no_path", None)

DFSStart ==
    /\ alg = "dfs" /\ pc = "start"
    /\ DFSLoop(<<start>>, {start}, start :> None)
    /\ UNCHANGED <<args, others, pq, cost, current_g, queue_backward, visited_backward,
                   parent_backward, step>>

DFSCheckEnd ==
    /\ alg = "dfs" /\ pc = "exploring"
    /\ IF current = end
       THEN Yield("found", ReconstructPath(end, parent))
       ELSE Yield("visited", current)
    /\ UNCHANGED <<args, others, locals>>

\* mutant: the neighbours are pushed in the enumerator's order, not reversed
DFSNeighbors_NoReverse ==
    /\ alg = "dfs" /\ pc = "visited"
    /\ LET r == BFSExpand(get_neighbors(current, width, height), current,
                          queue, visited, parent)
       IN DFSLoop(r.queue, r.visited, r.parent)
    /\ UNCHANGED <<args, others, pq, cost, current_g, queue_backward, visited_backward,
                   parent_backward, step>>

\* for neighbor in reversed(neighbors): the same body as BFS's loop
DFSNeighbors ==
    /\ alg = "dfs" /\ pc = "visited"
    /\ LET r == BFSExpand(Reverse(get_neighbors(current, width, height)), current,
                          queue, visited, parent)
       IN DFSLoop(r.queue, r.visited, r.parent)
    /\ UNCHANGED <<args, others, pq, cost, current_g, queue_backward, visited_backward,
                   parent_backward, step>>

DFSPull == DFSStart \/ DFSCheckEnd \/ DFSNeighbors

----------------------------------------------------------------------------
\* The heap of dijkstra, astar, greedy and jps. heapq orders its entries as
\* Python orders tuples, lexicographically, a node (x, y) by x and then y.
\* Equal entries are indistinguishable, so the heap is kept as the list of its
\* entries in push order and heappop takes out the least of them.

NodeLess(a, b) == a[1] < b[1] \/ (a[1] = b[1] /\ a[2] < b[2])

\* mutant: among entries (f, g, node) of equal f the larger g comes first
EntryLess_LargerGFirst(a, b) ==
    IF Len(a) = 1 THEN NodeLess(a[1], b[1])
    ELSE IF Len(a) = 2 THEN a[1] < b[1] \/ (a[1] = b[1] /\ NodeLess(a[2], b[2]))
    ELSE \/ a[1] < b[1]
         \/ a[1] = b[1] /\ a[2] > b[2]
         \/ a[1] = b[1] /\ a[2] = b[2] /\ NodeLess(a[3], b[3])

RECURSIVE EntryLess(_, _)
EntryLess(a, b) ==
    IF Len(a) = 1 THEN NodeLess(a[1], b[1])
    ELSE a[1] < b[1] \/ (a[1] = b[1] /\ EntryLess(Tail(a), Tail(b)))

\* mutant: pq.pop() in place of heapq.heappop(pq)
HeapMin_ListPop(h) == h[Len(h)]

HeapMin(h) == CHOOSE e \in Range(h) : \A o \in Range(h) : ~EntryLess(o, e)

HeapRemove(h, e) ==
    LET i == CHOOSE j \in 1..Len(h) : h[j] = e /\ \A k \in 1..(j - 1) : h[k] # e
    IN SubSeq(h, 1, i - 1) \o SubSeq(h, i + 1, Len(h))

heappush(h, e) == Append(h, e)

\* mutant: a popped entry is honoured even when its node is visited
HeapLoop_NoSkip(h, v) ==
    IF h = <<>> THEN [empty |-> TRUE, pq |-> h, entry |-> None]
    ELSE [empty |-> FALSE, pq |-> HeapRemove(h, HeapMin(h)), entry |-> HeapMin(h)]

\* while pq: entry = heappop(pq); if current in visited: continue
\* The first entry popped whose node is not visited, or empty when the heap
\* runs out.
RECURSIVE HeapLoop(_, _)
HeapLoop(h, v) ==
    IF h = <<>> THEN [empty |-> TRUE, pq |-> h, entry |-> None]
    ELSE LET e == HeapMin(h)
             rest == HeapRemove(h, e)
         IN IF e[Len(e)] \in v THEN HeapLoop(rest, v)
            ELSE [empty |-> FALSE, pq |-> rest, entry |-> e]

----------------------------------------------------------------------------
\* Dijkstra

\* mutant: the heap orders its entries by cost alone and a tie between
\* entries of the same cost is broken arbitrarily
DijkstraLoop_AnyTie(h, p, c) ==
    /\ parent' = p
    /\ cost' = c
    /\ IF h = <<>>
       THEN /\ pq' = h
            /\ UNCHANGED <<visited, current, current_g>>
            /\ Yield("no_path", None)
       ELSE \E i \in 1..Len(h) :
              /\ \A j \in 1..Len(h) : h[i][1] <= h[j][1]
              /\ pq' = SubSeq(h, 1, i - 1) \o SubSeq(h, i + 1, Len(h))
              /\ current_g' = h[i][1]
              /\ current' = h[i][2]
              /\ visited' = visited \cup {h[i][2]}
              /\ Yield("exploring", h[i][2])

\* the loop head up to yield exploring, or yield no_path after the loop
DijkstraLoop(h, p, c) ==
    /\ parent' = p
    /\ cost' = c
    /\ LET r == HeapLoop(h, visited) IN
       /\ pq' = r.pq
       /\ IF r.empty
          THEN /\ UNCHANGED <<visited, current, current_g>>
               /\ Yield("no_path", None)
          ELSE /\ current_g' = r.entry[1]
               /\ current' = r.entry[2]
               /\ visited' = visited \cup {r.entry[2]}
               /\ Yield("exploring", r.entry[2])

\* mutant: cost and parent of a neighbour are overwritten without the
\* visited test and without the comparison of costs
RECURSIVE DijkstraExpand_Unconditional(_, _, _, _, _, _, _)
DijkstraExpand_Unconditional(ns, cur, cur_cost, v, h, p, c) ==
    IF ns = <<>> THEN [pq |-> h, parent |-> p, cost |-> c]
    ELSE LET neighbor == Head(ns)
             new_cost == cur_cost + 1
         IN DijkstraExpand_Unconditional(Tail(ns), cur, cur_cost, v,
                IF neighbor \notin v THEN heappush(h, <<new_cost, neighbor>>) ELSE h,
                Put(p, neighbor, cur), Put(c, neighbor, new_cost))

RECURSIVE DijkstraExpand(_, _, _, _, _, _, _)
DijkstraExpand(ns, cur, cur_cost, v, h, p, c) ==
    IF ns = <<>> THEN [pq |-> h, parent |-> p, cost |-> c]
    ELSE LET neighbor == Head(ns)
             new_cost == cur_cost + 1
         IN IF neighbor \notin v
               /\ (neighbor \notin DOMAIN c \/ new_cost < c[neighbor])
            THEN DijkstraExpand(Tail(ns), cur, cur_cost, v,
                                heappush(h, <<new_cost, neighbor>>),
                                Put(p, neighbor, cur), Put(c, neighbor, new_cost))
            ELSE DijkstraExpand(Tail(ns), cur, cur_cost, v, h, p, c)

DijkstraStart ==
    /\ alg = "dijkstra" /\ pc = "start"
    /\ DijkstraLoop(<<<<0, start>>>>, start :> None, start :> 0)
    /\ UNCHANGED <<args, others, queue, queue_backward, visited_backward,
                   parent_backward, step>>

DijkstraCheckEnd ==
    /\ alg = "dijkstra" /\ pc = "exploring"
    /\ IF current = end
       THEN Yield("found", ReconstructPath(end, parent))
       ELSE Yield("visited", current)
    /\ UNCHANGED <<args, others, locals>>

DijkstraNeighbors ==
    /\ alg = "dijkstra" /\ pc = "visited"
    /\ LET r == DijkstraExpand(get_neighbors(current, width, height), current,
                               current_g, visited, pq, parent, cost)
       IN DijkstraLoop(r.pq, r.parent, r.cost)
    /\ UNCHANGED <<args, others, queue, queue_backward, visited_backward,
                   parent_backward, step>>

DijkstraPull == DijkstraStart \/ DijkstraCheckEnd \/ DijkstraNeighbors

----------------------------------------------------------------------------
\* A*

AStarLoop(h, p, g) ==
    /\ parent' = p
    /\ cost' = g
    /\ LET r == HeapLoop(h, visited) IN
       /\ pq' = r.pq
       /\ IF r.empty
          THEN /\ UNCHANGED <<visited, current, current_g>>
               /\ Yield("no_path", None)
          ELSE /\ current_g' = r.entry[2]
               /\ current' = r.entry[3]
               /\ visited' = visited \cup {r.entry[3]}
               /\ Yield("exploring", r.entry[3])

\* mutant: the heuristic has the wrong sign
RECURSIVE AStarExpand_NegativeH(_, _, _, _, _, _, _, _)
AStarExpand_NegativeH(ns, cur, cur_g, goal, v, h, p, g) ==
    IF ns = <<>> THEN [pq |-> h, parent |-> p, cost |-> g]
    ELSE LET neighbor == Head(ns)
             tentative_g == cur_g + 1
             h_score == 0 - manhattan_distance(neighbor, goal)
             f_score == tentative_g + h_score
         IN IF neighbor \notin v
               /\ (neighbor \notin DOMAIN g \/ tentative_g < g[neighbor])
            THEN AStarExpand_NegativeH(Tail(ns), cur, cur_g, goal, v,
                             heappush(h, <<f_score, tentative_g, neighbor>>),
                             Put(p, neighbor, cur), Put(g, neighbor, tentative_g))
            ELSE AStarExpand_NegativeH(Tail(ns), cur, cur_g, goal, v, h, p, g)

RECURSIVE AStarExpand(_, _, _, _, _, _, _, _)
AStarExpand(ns, cur, cur_g, goal, v, h, p, g) ==
    IF ns = <<>> THEN [pq |-> h, parent |-> p, cost |-> g]
    ELSE LET neighbor == Head(ns)
             tentative_g == cur_g + 1
             h_score == manhattan_distance(neighbor, goal)
             f_score == tentative_g + h_score
         IN IF neighbor \notin v
               /\ (neighbor \notin DOMAIN g \/ tentative_g < g[neighbor])
            THEN AStarExpand(Tail(ns), cur, cur_g, goal, v,
                             heappush(h, <<f_score, tentative_g, neighbor>>),
                             Put(p, neighbor, cur), Put(g, neighbor, tentative_g))
            ELSE AStarExpand(Tail(ns), cur, cur_g, goal, v, h, p, g)

AStarStart ==
    /\ alg = "astar" /\ pc = "start"
    /\ AStarLoop(<<<<0, 0, start>>>>, start :> None, start :> 0)
    /\ UNCHANGED <<args, others, queue, queue_backward, visited_backward,
                   parent_backward, step>>

AStarCheckEnd ==
    /\ alg = "astar" /\ pc = "exploring"
    /\ IF current = end
       THEN Yield("found", ReconstructPath(end, parent))
       ELSE Yield("visited", current)
    /\ UNCHANGED <<args, others, locals>>

AStarNeighbors ==
    /\ alg = "astar" /\ pc = "visited"
    /\ LET r == AStarExpand(get_neighbors(current, width, height), current,
                            current_g, end, visited, pq, parent, cost)
       IN AStarLoop(r.pq, r.parent, r.cost)
    /\ UNCHANGED <<args, others, queue, queue_backward, visited_backward,
                   parent_backward, step>>

AStarPull == AStarStart \/ AStarCheckEnd \/ AStarNeighbors

----------------------------------------------------------------------------
\* Greedy best-first

GreedyLoop(h, p) ==
    /\ parent' = p
    /\ LET r == HeapLoop(h, visited) IN
       /\ pq' = r.pq
       /\ IF r.empty
          THEN /\ UNCHANGED <<visited, current>>
               /\ Yield("no_path", None)
          ELSE /\ current' = r.entry[2]
               /\ visited' = visited \cup {r.entry[2]}
               /\ Yield("exploring", r.entry[2])

RECURSIVE GreedyExpand(_, _, _, _, _, _)
GreedyExpand(ns, cur, goal, v, h, p) ==
    IF ns = <<>> THEN [pq |-> h, parent |-> p]
    ELSE LET neighbor == Head(ns)
             h_score == manhattan_distance(neighbor, goal)
         IN IF neighbor \notin v
            THEN GreedyExpand(Tail(ns), cur, goal, v,
                              heappush(h, <<h_score, neighbor>>),
                              Put(p, neighbor, cur))
            ELSE GreedyExpand(Tail(ns), cur, goal, v, h, p)

GreedyStart ==
    /\ alg = "greedy" /\ pc = "start"
    /\ GreedyLoop(<<<<0, start>>>>, start :> None)
    /\ UNCHANGED <<args, others, queue, cost, current_g, queue_backward,
                   visited_backward, parent_backward, step>>

\* mutant: yield visited is missing, the neighbour loop follows at once
GreedyCheckEnd_NoVisited ==
    /\ alg = "greedy" /\ pc = "exploring"
    /\ IF current = end
       THEN /\ Yield("found", ReconstructPath(end, parent))
            /\ UNCHANGED <<parent, pq, visited, current>>
       ELSE LET r == GreedyExpand(get_neighbors(current, width, height), current,
                                  end, visited, pq, parent)
            IN GreedyLoop(r.pq, r.parent)
    /\ UNCHANGED <<args, others, queue, cost, current_g, queue_backward,
                   visited_backward, parent_backward, step>>

GreedyCheckEnd ==
    /\ alg = "greedy" /\ pc = "exploring"
    /\ IF current = end
       THEN Yield("found", ReconstructPath(end, parent))
       ELSE Yield("visited", current)
    /\ UNCHANGED <<args, others, locals>>

GreedyNeighbors ==
    /\ alg = "greedy" /\ pc = "visited"
    /\ LET r == GreedyExpand(get_neighbors(current, width, height), current,
                             end, visited, pq, parent)
       IN GreedyLoop(r.pq, r.parent)
    /\ UNCHANGED <<args, others, queue, cost, current_g, queue_backward,
                   visited_backward, parent_backward, step>>

GreedyPull == GreedyStart \/ GreedyCheckEnd \/ GreedyNeighbors

----------------------------------------------------------------------------
\* Bidirectional search

\* mutant: the backward half starts at the meeting point itself
_reconstruct_bidirectional_path_MeetingTwice(meeting_point, par_forward, par_backward) ==
    LET RECURSIVE Chain(_, _)
        Chain(node, par) ==
            IF node = None THEN <<>>
            ELSE <<node>> \o Chain(Get(par, node), par)
        path_forward == Reverse(Chain(meeting_point, par_forward))
        path_backward == Chain(meeting_point, par_backward)
    IN path_forward \o path_backward

_reconstruct_bidirectional_path(meeting_point, par_forward, par_backward) ==
    LET RECURSIVE Chain(_, _)
        \* node, par.get(node), ... until None
        Chain(node, par) ==
            IF node = None THEN <<>>
            ELSE <<node>> \o Chain(Get(par, node), par)
        path_forward == Reverse(Chain(meeting_point, par_forward))
        path_backward == Chain(Get(par_backward, meeting_point), par_backward)
    IN path_forward \o path_backward

\* if queue_backward: current = queue_backward.popleft(); yield exploring
\* (the second half of the loop body), else on to the loop test
BidirBackwardStep(qf, qb) ==
    IF qb # <<>>
    THEN /\ current' = Head(qb)
         /\ queue_backward' = Tail(qb)
         /\ queue' = qf
         /\ events' = Append(events, <<"exploring", Head(qb)>>)
         /\ pc' = "exploring_backward"
         /\ exception' = exception
    ELSE \* unreachable: the loop test has just seen queue_backward non-empty
         /\ UNCHANGED <<current>>
         /\ queue' = qf
         /\ queue_backward' = qb
         /\ Yield("no_path", None)

\* mutant: the forward side takes the newest entry of its queue
BidirLoop_PopRight(qf, qb) ==
    IF qf # <<>> /\ qb # <<>>
    THEN /\ current' = qf[Len(qf)]
         /\ queue' = SubSeq(qf, 1, Len(qf) - 1)
         /\ queue_backward' = qb
         /\ Yield("exploring", qf[Len(qf)])
    ELSE /\ UNCHANGED <<current>>
         /\ queue' = qf
         /\ queue_backward' = qb
         /\ Yield("no_path", None)

\* while queue_forward and queue_backward: if queue_forward: popleft, yield
\* exploring; after the loop yield no_path
BidirLoop(qf, qb) ==
    IF qf # <<>> /\ qb # <<>>
    THEN /\ current' = Head(qf)
         /\ queue' = Tail(qf)
         /\ queue_backward' = qb
         /\ Yield("exploring", Head(qf))
    ELSE /\ UNCHANGED <<current>>
         /\ queue' = qf
         /\ queue_backward' = qb
         /\ Yield("no_path", None)

\* mutant: the start == end shortcut is missing
BidirStart_NoShortcut ==
    /\ alg = "bidirectional" /\ pc = "start"
    /\ visited' = {start}
    /\ parent' = start :> None
    /\ visited_backward' = {end}
    /\ parent_backward' = end :> None
    /\ BidirLoop(<<start>>, <<end>>)
    /\ UNCHANGED <<args, others, pq, cost, current_g, step>>

BidirStart ==
    /\ alg = "bidirectional" /\ pc = "start"
    /\ IF start = end
       THEN /\ Yield("found", <<start>>)
            /\ UNCHANGED <<queue, visited, parent, current, queue_backward,
                           visited_backward, parent_backward>>
       ELSE /\ visited' = {start}
            /\ parent' = start :> None
            /\ visited_backward' = {end}
            /\ parent_backward' = end :> None
            /\ BidirLoop(<<start>>, <<end>>)
    /\ UNCHANGED <<args, others, pq, cost, current_g, step>>

BidirForwardCheck ==
    /\ alg = "bidirectional" /\ pc = "exploring"
    /\ IF current \in visited_backward
       THEN Yield("found",
                  _reconstruct_bidirectional_path(current, parent, parent_backward))
       ELSE Yield("visited", current)
    /\ UNCHANGED <<args, others, locals>>

\* mutant: the backward step is missing from the loop body
BidirForwardNeighbors_SkipBackward ==
    /\ alg = "bidirectional" /\ pc = "visited"
    /\ LET r == BFSExpand(get_neighbors(current, width, height), current,
                          queue, visited, parent)
       IN /\ visited' = r.visited
          /\ parent' = r.parent
          /\ BidirLoop(r.queue, queue_backward)
    /\ UNCHANGED <<args, others, pq, cost, current_g, visited_backward, parent_backward,
                   step>>

BidirForwardNeighbors ==
    /\ alg = "bidirectional" /\ pc = "visited"
    /\ LET r == BFSExpand(get_neighbors(current, width, height), current,
                          queue, visited, parent)
       IN /\ visited' = r.visited
          /\ parent' = r.parent
          /\ BidirBackwardStep(r.queue, queue_backward)
    /\ UNCHANGED <<args, others, pq, cost, current_g, visited_backward, parent_backward,
                   step>>

BidirBackwardCheck ==
    /\ alg = "bidirectional" /\ pc = "exploring_backward"
    /\ IF current \in visited
       THEN /\ events' = Append(events, <<"found",
                   _reconstruct_bidirectional_path(current, parent, parent_backward)>>)
            /\ pc' = "found"
       ELSE /\ events' = Append(events, <<"visited", current>>)
            /\ pc' = "visited_backward"
    /\ UNCHANGED <<args, others, exception, locals>>

BidirBackwardNeighbors ==
    /\ alg = "bidirectional" /\ pc = "visited_backward"
    /\ LET r == BFSExpand(get_neighbors(current, width, height), current,
                          queue_backward, visited_backward, parent_backward)
       IN /\ visited_backward' = r.visited
          /\ parent_backward' = r.parent
          /\ BidirLoop(queue, r.queue)
    /\ UNCHANGED <<args, others, pq, cost, current_g, visited, parent, step>>

BidirPull ==
    \/ BidirStart
    \/ BidirForwardCheck
    \/ BidirForwardNeighbors
    \/ BidirBackwardCheck
    \/ BidirBackwardNeighbors

----------------------------------------------------------------------------
\* Jump point search

\* the number of further steps _jump takes after the first: range(3)
JumpSteps == 3

\* the for loop of _jump, with k steps left and next_node the last cell reached
RECURSIVE JumpFrom(_, _, _, _, _, _)
JumpFrom(next_node, d, goal, w, h, k) ==
    IF k = 0 THEN next_node
    ELSE LET n == <<next_node[1] + d[1], next_node[2] + d[2]>> IN
         IF ~InBounds(n, w, h) THEN next_node
         ELSE IF n = goal THEN n
         ELSE JumpFrom(n, d, goal, w, h, k - 1)

\* None when the first step leaves the grid
_jump(cur, d, goal, w, h, v) ==
    LET n == <<cur[1] + d[1], cur[2] + d[2]>> IN
    IF ~InBounds(n, w, h) THEN None
    ELSE IF n = goal THEN n
    ELSE JumpFrom(n, d, goal, w, h, JumpSteps)

Sign(n) == IF n = 0 THEN 0 ELSE IF n > 0 THEN 1 ELSE -1

\* the cells strictly between two jump points, walking (dx, dy) from a
RECURSIVE Between(_, _, _, _)
Between(a, b, dx, dy) ==
    LET n == <<a[1] + dx, a[2] + dy>> IN
    IF a = b \/ n = b THEN <<>>
    ELSE <<n>> \o Between(n, b, dx, dy)

RECURSIVE Densify(_)
Densify(jump_path) ==
    IF Len(jump_path) <= 1 THEN <<>>
    ELSE LET a == jump_path[1]
             b == jump_path[2]
         IN <<a>> \o Between(a, b, Sign(b[1] - a[1]), Sign(b[2] - a[2]))
                   \o Densify(Tail(jump_path))

\* mutant: the jump points are returned without the cells between them
_reconstruct_full_path_Sparse(e, par) == Reverse(ParentChain(e, par))

_reconstruct_full_path(e, par) ==
    LET jump_path == Reverse(ParentChain(e, par))
    IN Densify(jump_path) \o <<jump_path[Len(jump_path)]>>

\* mutant: every jump is charged one step, whatever its length
RECURSIVE JPSExpand_UnitCost(_, _, _, _, _, _, _, _, _, _)
JPSExpand_UnitCost(ds, cur, cur_g, goal, w, ht, v, h, p, g) ==
    IF ds = <<>> THEN [pq |-> h, parent |-> p, cost |-> g]
    ELSE LET jump_point == _jump(cur, Head(ds), goal, w, ht, v)
             tentative_g == cur_g + 1
             h_score == manhattan_distance(jump_point, goal)
             f_score == tentative_g + h_score
         IN IF jump_point # None /\ jump_point \notin v
               /\ (jump_point \notin DOMAIN g \/ tentative_g < g[jump_point])
            THEN JPSExpand_UnitCost(Tail(ds), cur, cur_g, goal, w, ht, v,
                           heappush(h, <<f_score, tentative_g, jump_point>>),
                           Put(p, jump_point, cur), Put(g, jump_point, tentative_g))
            ELSE JPSExpand_UnitCost(Tail(ds), cur, cur_g, goal, w, ht, v, h, p, g)

RECURSIVE JPSExpand(_, _, _, _, _, _, _, _, _, _)
JPSExpand(ds, cur, cur_g, goal, w, ht, v, h, p, g) ==
    IF ds = <<>> THEN [pq |-> h, parent |-> p, cost |-> g]
    ELSE LET jump_point == _jump(cur, Head(ds), goal, w, ht, v)
             jump_cost == manhattan_distance(cur, jump_point)
             tentative_g == cur_g + jump_cost
             h_score == manhattan_distance(jump_point, goal)
             f_score == tentative_g + h_score
         IN IF jump_point # None /\ jump_point \notin v
               /\ (jump_point \notin DOMAIN g \/ tentative_g < g[jump_point])
            THEN JPSExpand(Tail(ds), cur, cur_g, goal, w, ht, v,
                           heappush(h, <<f_score, tentative_g, jump_point>>),
                           Put(p, jump_point, cur), Put(g, jump_point, tentative_g))
            ELSE JPSExpand(Tail(ds), cur, cur_g, goal, w, ht, v, h, p, g)

JPSStart ==
    /\ alg = "jps" /\ pc = "start"
    /\ AStarLoop(<<<<0, 0, start>>>>, start :> None, start :> 0)
    /\ UNCHANGED <<args, others, queue, queue_backward, visited_backward,
                   parent_backward, step>>

JPSCheckEnd ==
    /\ alg = "jps" /\ pc = "exploring"
    /\ IF current = end
       THEN Yield("found", _reconstruct_full_path(end, parent))
       ELSE Yield("visited", current)
    /\ UNCHANGED <<args, others, locals>>

JPSJumps ==
    /\ alg = "jps" /\ pc = "visited"
    /\ LET r == JPSExpand(directions, current, current_g, end, width, height,
                          visited, pq, parent, cost)
       IN AStarLoop(r.pq, r.parent, r.cost)
    /\ UNCHANGED <<args, others, queue, queue_backward, visited_backward,
                   parent_backward, step>>

JPSPull == JPSStart \/ JPSCheckEnd \/ JPSJumps

----------------------------------------------------------------------------
\* Random walk

max_steps == width * height * 2

\* mutant: the loop runs one step past max_steps
WalkLoop_OffByOne(s, cur) ==
    /\ current' = cur
    /\ IF s <= max_steps
       THEN /\ step' = s
            /\ Yield("exploring", cur)
       ELSE /\ step' = step
            /\ Yield("no_path", None)

\* for step in range(max_steps): yield exploring; after the loop yield no_path
WalkLoop(s, cur) ==
    /\ current' = cur
    /\ IF s < max_steps
       THEN /\ step' = s
            /\ Yield("exploring", cur)
       ELSE /\ step' = step
            /\ Yield("no_path", None)

WalkStart ==
    /\ alg = "random_walk" /\ pc = "start"
    /\ visited' = {}
    /\ parent' = start :> None
    /\ WalkLoop(0, start)
    /\ UNCHANGED <<args, others, queue, pq, cost, current_g, queue_backward,
                   visited_backward, parent_backward>>

WalkCheckEnd ==
    /\ alg = "random_walk" /\ pc = "exploring"
    /\ IF current = end
       THEN Yield("found", ReconstructPath(end, parent))
       ELSE Yield("visited", current)
    /\ UNCHANGED <<args, others, locals>>

\* visited.add(current), the random choice of next_node, the parent entry,
\* and the next iteration up to its yield. random.choice of an empty list
\* raises IndexError.
WalkMove ==
    /\ alg = "random_walk" /\ pc = "visited"
    /\ LET v == visited \cup {current}
           neighbors == get_neighbors(current, width, height)
           unvisited == SelectSeq(neighbors, LAMBDA n : n \notin v)
       IN /\ visited' = v
          /\ \E prefer \in BOOLEAN :   \* random.random() > 0.3
               LET choices == IF unvisited # <<>> /\ prefer THEN unvisited
                              ELSE neighbors
               IN IF choices = <<>>
                  THEN /\ pc' = "raised"
                       /\ exception' = "IndexError"
                       /\ UNCHANGED <<events, parent, current, step>>
                  ELSE \E i \in 1..Len(choices) :
                         LET next_node == choices[i] IN
                         /\ parent' = IF next_node \notin DOMAIN parent
                                      THEN Put(parent, next_node, current)
                                      ELSE parent
                         /\ WalkLoop(step + 1, next_node)
    /\ UNCHANGED <<args, others, queue, pq, cost, current_g, queue_backward,
                   visited_backward, parent_backward>>

WalkPull == WalkStart \/ WalkCheckEnd \/ WalkMove

----------------------------------------------------------------------------
Next ==
    \/ Call
    \/ VisualizeCall
    \/ Return
    \/ BFSPull
    \/ DFSPull
    \/ DijkstraPull
    \/ AStarPull
    \/ GreedyPull
    \/ BidirPull
    \/ JPSPull
    \/ WalkPull

Spec == Init /\ [][Next]_vars

----------------------------------------------------------------------------
\* _jump called on its own, from every cell of a grid, in every direction,
\* with every goal

JumpInit ==
    /\ alg = "jps"
    /\ width \in 1..MaxJumpDim
    /\ height \in 1..MaxJumpDim
    /\ current \in Cells(width, height)
    /\ start = current
    /\ end \in Cells(width, height)
    /\ direction \in Range(directions)
    /\ obstacles = {}
    /\ pc = "jump_call"
    /\ exception = ""
    /\ events = <<>>
    /\ queue = <<>>
    /\ visited = {}
    /\ parent = <<>>
    /\ pq = <<>>
    /\ cost = <<>>
    /\ current_g = 0
    /\ queue_backward = <<>>
    /\ visited_backward = {}
    /\ parent_backward = <<>>
    /\ step = 0
    /\ solo_events = <<>>
    /\ active = "solo"
    /\ other = NoFrame
    /\ jump_result = None
    /\ NoInput

\* jump_point = self._jump(current, direction, end, width, height, visited)
Jump ==
    /\ pc = "jump_call"
    /\ jump_result' = _jump(current, direction, end, width, height, visited)
    /\ pc' = "jump_return"
    /\ UNCHANGED <<args, exception, events, locals, solo_events, active, other,
                   direction, listener, game, typist,
            snake_game, sock, hid>>

JumpNext == Jump

JumpSpec == JumpInit /\ [][JumpNext]_vars

----------------------------------------------------------------------------
\* find_path of jump point search on grids with a side longer than one jump

CorridorInit ==
    /\ Single
    /\ alg = "jps"
    /\ width \in 1..MaxCorridorWidth
    /\ height \in 1..MaxCorridorLength
    /\ start \in Cells(width, height)
    /\ end \in Cells(width, height)
    /\ obstacles = {}
    /\ pc = "call"
    /\ exception = ""
    /\ events = <<>>
    /\ queue = <<>>
    /\ visited = {}
    /\ parent = <<>>
    /\ pq = <<>>
    /\ cost = <<>>
    /\ current = None
    /\ current_g = 0
    /\ queue_backward = <<>>
    /\ visited_backward = {}
    /\ parent_backward = <<>>
    /\ step = 0

CorridorNext ==
    \/ Call
    \/ Return
    \/ JPSPull

CorridorSpec == CorridorInit /\ [][CorridorNext]_vars

----------------------------------------------------------------------------
\* A caller that runs one deterministic search to its end, keeps its events,
\* and then holds two generators at once on the same start, end and grid:
\* A from the same algorithm object, B from any algorithm object. It pulls
\* them in any order and may drop the one it is not pulling part-way
\* (visualize_algorithm returns from its for loop when stop_event is set).

Deterministic == Algorithms \ {"random_walk"}

PairInit ==
    /\ Single
    /\ alg \in Deterministic
    /\ width \in 1..MaxDim
    /\ height \in 1..MaxDim
    /\ width * height <= MaxPairCells
    /\ start \in Cells(width, height)
    /\ end \in Cells(width, height)
    /\ obstacles = {}
    /\ pc = "call"
    /\ exception = ""
    /\ events = <<>>
    /\ queue = <<>>
    /\ visited = {}
    /\ parent = <<>>
    /\ pq = <<>>
    /\ cost = <<>>
    /\ current = None
    /\ current_g = 0
    /\ queue_backward = <<>>
    /\ visited_backward = {}
    /\ parent_backward = <<>>
    /\ step = 0

\* the caller turns to the generator with frame f: what the next pull runs on
Resume(f) ==
    /\ alg' = f.alg
    /\ pc' = f.pc
    /\ exception' = f.exception
    /\ events' = f.events
    /\ queue' = f.locals[1]
    /\ visited' = f.locals[2]
    /\ parent' = f.locals[3]
    /\ pq' = f.locals[4]
    /\ cost' = f.locals[5]
    /\ current' = f.locals[6]
    /\ current_g' = f.locals[7]
    /\ queue_backward' = f.locals[8]
    /\ visited_backward' = f.locals[9]
    /\ parent_backward' = f.locals[10]
    /\ step' = f.locals[11]

\* after the first run has returned: find_path is called again on the same
\* object with the same arguments (generator A, pulled first) and on the
\* object of algorithm b (generator B); no line of either body has run
CallPair ==
    /\ active = "solo" /\ pc = "done"
    /\ solo_events' = events
    /\ active' = "A"
    /\ Resume(Frame(alg, "start", "", <<>>, FreshLocals))
    /\ \E b \in Deterministic :
          other' = Frame(b, "start", "", <<>>, FreshLocals)
    /\ UNCHANGED <<start, end, width, height, obstacles, direction, jump_result, listener, game, typist,
            snake_game, sock, hid>>

\* mutant: visited is kept on the algorithm object's class, one set for
\* every generator, and is not part of a frame
Switch_SharedVisited ==
    /\ active \in {"A", "B"}
    /\ other.pc \notin {"none", "closed", "done"}
    /\ other' = Frame(alg, pc, exception, events, locals)
    /\ alg' = other.alg
    /\ pc' = other.pc
    /\ exception' = other.exception
    /\ events' = other.events
    /\ queue' = other.locals[1]
    /\ visited' = visited
    /\ parent' = other.locals[3]
    /\ pq' = other.locals[4]
    /\ cost' = other.locals[5]
    /\ current' = other.locals[6]
    /\ current_g' = other.locals[7]
    /\ queue_backward' = other.locals[8]
    /\ visited_backward' = other.locals[9]
    /\ parent_backward' = other.locals[10]
    /\ step' = other.locals[11]
    /\ active' = IF active = "A" THEN "B" ELSE "A"
    /\ UNCHANGED <<start, end, width, height, obstacles, solo_events,
                   direction, jump_result, listener, game, typist,
            snake_game, sock, hid>>

\* the caller leaves the generator it was pulling suspended, with its frame,
\* and turns to the other one
Switch ==
    /\ active \in {"A", "B"}
    /\ other.pc \notin {"none", "closed", "done"}
    /\ other' = Frame(alg, pc, exception, events, locals)
    /\ Resume(other)
    /\ active' = IF active = "A" THEN "B" ELSE "A"
    /\ UNCHANGED <<start, end, width, height, obstacles, solo_events,
                   direction, jump_result, listener, game, typist,
            snake_game, sock, hid>>

\* the caller drops the suspended generator before its terminal event: its
\* frame is gone, the events it has yielded stay on record
Abandon ==
    /\ active \in {"A", "B"}
    /\ other.pc \in {"start", "exploring", "visited", "exploring_backward",
                     "visited_backward"}
    /\ other' = [other EXCEPT !.pc = "closed", !.locals = FreshLocals]
    /\ UNCHANGED <<args, pc, exception, events, locals, solo_events, active,
                   direction, jump_result, listener, game, typist,
            snake_game, sock, hid>>

PairNext ==
    \/ Call
    \/ Return
    \/ BFSPull
    \/ DFSPull
    \/ DijkstraPull
    \/ AStarPull
    \/ GreedyPull
    \/ BidirPull
    \/ JPSPull
    \/ CallPair
    \/ Switch
    \/ Abandon

PairSpec == PairInit /\ [][PairNext]_vars

-----------------------------------------------------------------------------
\* stdin_listener.py: the reader thread (_run) and the game loop that calls
\* consume_direction, running side by side on one StdinListener

search == <<args, pc, exception, events, locals, solo_events, active, other,
            direction, jump_result, snake_game, sock, hid>>

\* the key patterns a typist may repeat
Patterns == UNION {[1..n -> Keys] : n \in 1..MaxPattern}

\* the arrow key of the typist's next press
NextKey ==
    typist.pattern[(Len(listener.event_queue) % Len(typist.pattern)) + 1]

\* collections.deque(maxlen=16).append(x): a full deque discards its
\* leftmost item
dequeAppend(d, x) ==
    IF Len(d) = maxlen THEN Append(Tail(d), x) ELSE Append(d, x)

\* a new StdinListener, nothing started; no search is running
ListenerInit ==
    /\ listener = NewListener
    /\ game = NewGame
    /\ typist \in [pattern : Patterns, lost : {0}]
    /\ snake_game = None
    /\ sock = None
    /\ hid = None
    /\ alg = "bfs"
    /\ start = <<0, 0>>
    /\ end = <<0, 0>>
    /\ width = 0
    /\ height = 0
    /\ obstacles = {}
    /\ pc = "none"
    /\ exception = ""
    /\ events = <<>>
    /\ queue = <<>>
    /\ visited = {}
    /\ parent = <<>>
    /\ pq = <<>>
    /\ cost = <<>>
    /\ current = <<0, 0>>
    /\ current_g = 0
    /\ queue_backward = <<>>
    /\ visited_backward = {}
    /\ parent_backward = <<>>
    /\ step = 0
    /\ solo_events = <<>>
    /\ active = "solo"
    /\ other = NoFrame
    /\ direction = None
    /\ jump_result = None

\* start(): running is set and the reader thread begins at its loop test
Start ==
    /\ listener.thread = "none"
    /\ listener' = [listener EXCEPT !.running = TRUE, !.thread = "loop"]
    /\ UNCHANGED <<search, game, typist>>

\* stop(), called from another thread while the reader may be anywhere
Stop ==
    /\ listener.thread # "none"
    /\ listener.running
    /\ listener' = [listener EXCEPT !.running = FALSE]
    /\ UNCHANGED <<search, game, typist>>

\* while self.running:
ReaderTest ==
    /\ listener.thread = "loop"
    /\ listener' = [listener EXCEPT
                       !.thread = IF listener.running THEN "body" ELSE "exited"]
    /\ UNCHANGED <<search, game, typist>>

\* one iteration that changes no field: nothing to read within the timeout,
\* a character other than ESC and Ctrl+C, an incomplete escape sequence, or
\* three characters that are no key of ESCAPE_MAP
ReadIgnored ==
    /\ listener.thread = "body"
    /\ listener' = [listener EXCEPT !.thread = "loop"]
    /\ UNCHANGED <<search, game, typist>>

\* one iteration that reads Ctrl+C: running is cleared and the loop is left
ReadCtrlC ==
    /\ listener.thread = "body"
    /\ listener' = [listener EXCEPT !.running = FALSE, !.thread = "exited"]
    /\ UNCHANGED <<search, game, typist>>

\* one iteration that reads the three characters of an arrow key, in either
\* encoding
ReadArrow ==
    /\ listener.thread = "body"
    /\ Len(listener.event_queue) < MaxPresses
    /\ \E seq \in DOMAIN ESCAPE_MAP :
          /\ ESCAPE_MAP[seq] = NextKey
          /\ LET key == ESCAPE_MAP[seq]
             IN  listener' =
                   [listener EXCEPT
                      !.key_states = @ \cup {key},
                      !.last_direction = key,
                      !.direction_queue = dequeAppend(@, key),
                      !.event_queue = Append(@, key),
                      !.thread = "loop"]
    /\ typist' = [typist EXCEPT
                    !.lost = IF Len(listener.direction_queue) = maxlen
                             THEN @ + 1 ELSE @]
    /\ UNCHANGED <<search, game>>

\* consume_direction: if self.direction_queue: ... return None
ConsumeTest ==
    /\ game.pc = "idle"
    /\ game' = IF listener.direction_queue # <<>>
               THEN [game EXCEPT !.pc = "popleft"]
               ELSE [game EXCEPT !.new_dir = "None"]
    /\ UNCHANGED <<search, listener, typist>>

\* mutant: return self.direction_queue.pop(), the newest entry
ConsumePop_Right ==
    /\ game.pc = "popleft"
    /\ game' = [game EXCEPT
                  !.new_dir = listener.direction_queue[Len(listener.direction_queue)],
                  !.consumed = @ + 1,
                  !.pc = "idle"]
    /\ listener' = [listener EXCEPT
                      !.direction_queue = SubSeq(@, 1, Len(@) - 1)]
    /\ UNCHANGED <<search, typist>>

\* consume_direction: return self.direction_queue.popleft()
ConsumePop ==
    /\ game.pc = "popleft"
    /\ game' = [game EXCEPT !.new_dir = Head(listener.direction_queue),
                            !.consumed = @ + 1,
                            !.pc = "idle"]
    /\ listener' = [listener EXCEPT !.direction_queue = Tail(@)]
    /\ UNCHANGED <<search, typist>>

ListenerNext ==
    \/ Start
    \/ Stop
    \/ ReaderTest
    \/ ReadIgnored
    \/ ReadCtrlC
    \/ ReadArrow
    \/ ConsumeTest
    \/ ConsumePop

ListenerSpec == ListenerInit /\ [][ListenerNext]_vars

-----------------------------------------------------------------------------
\* The variables of a search, and their values while no search runs

pathfinding == <<args, pc, exception, events, locals, solo_events, active,
                 other, direction, jump_result>>

NoSearch ==
    /\ alg = "bfs"
    /\ start = <<0, 0>>
    /\ end = <<0, 0>>
    /\ width = 0
    /\ height = 0
    /\ obstacles = {}
    /\ pc = "none"
    /\ exception = ""
    /\ events = <<>>
    /\ queue = <<>>
    /\ visited = {}
    /\ parent = <<>>
    /\ pq = <<>>
    /\ cost = <<>>
    /\ current = <<0, 0>>
    /\ current_g = 0
    /\ queue_backward = <<>>
    /\ visited_backward = {}
    /\ parent_backward = <<>>
    /\ step = 0
    /\ solo_events = <<>>
    /\ active = "solo"
    /\ other = NoFrame
    /\ direction = None
    /\ jump_result = None

-----------------------------------------------------------------------------
\* snake.py: SnakeGame, driven by snake_runner of main.py

\* the cells place_food may choose: (fx, fy) not in self.snake
FreeCells(grid, snake) == Cells(grid, grid) \ Range(snake)

\* reset(), with f the cell place_food has drawn; moved is the direction the
\* latest move() of this game has used, None before the first
reset(grid, f) ==
    [grid |-> grid,
     snake |-> [i \in 1..3 |-> <<grid \div 2, grid \div 2 + (i - 1)>>],
     direction |-> <<0, -1>>,
     food |-> f,
     alive |-> TRUE,
     score |-> 0,
     pc |-> "loop",
     moved |-> None]

\* the if/elif chain of update_direction
Turn(new_dir, d) ==
    IF new_dir = "up" /\ d # <<0, 1>> THEN <<0, -1>>
    ELSE IF new_dir = "down" /\ d # <<0, -1>> THEN <<0, 1>>
    ELSE IF new_dir = "left" /\ d # <<1, 0>> THEN <<-1, 0>>
    ELSE IF new_dir = "right" /\ d # <<-1, 0>> THEN <<1, 0>>
    ELSE d

\* SnakeGame(matrix, grid_size): __init__ ends with reset()
SnakeInit ==
    /\ NoSearch
    /\ listener = NewListener
    /\ game = NewGame
    /\ typist = [pattern |-> <<>>, lost |-> 0]
    /\ sock = None
    /\ hid = None
    /\ \E grid \in 2..MaxSnakeGrid :
          snake_game \in {reset(grid, f) :
                             f \in FreeCells(grid, reset(grid, None).snake)}

\* game.update_direction(input_listener): consume_direction returns any
\* arrow key, or None
UpdateDirection ==
    /\ snake_game.pc = "loop"
    /\ snake_game.alive
    /\ \E new_dir \in Keys \cup {"None"} :
          snake_game' = [snake_game EXCEPT
                           !.direction = IF new_dir = "None" THEN @
                                         ELSE Turn(new_dir, @)]
    /\ UNCHANGED <<pathfinding, listener, game, typist, sock, hid>>

\* game.move(), once the tick has passed; place_food never returns when
\* every cell of the grid is a snake cell
Move ==
    /\ snake_game.pc = "loop"
    /\ snake_game.alive
    /\ LET head == snake_game.snake[1]
           grid == snake_game.grid
           new_head == <<(head[1] + snake_game.direction[1]) % grid,
                         (head[2] + snake_game.direction[2]) % grid>>
           grown == <<new_head>> \o snake_game.snake
       IN IF new_head \in Range(snake_game.snake)
          THEN snake_game' = [snake_game EXCEPT
                                !.alive = FALSE,
                                !.moved = snake_game.direction]
          ELSE IF new_head = snake_game.food
          THEN /\ snake_game.score < MaxScore
               /\ IF FreeCells(grid, grown) = {}
                  THEN snake_game' = [snake_game EXCEPT
                                        !.snake = grown,
                                        !.score = @ + 1,
                                        !.pc = "place_food",
                                        !.moved = snake_game.direction]
                  ELSE \E f \in FreeCells(grid, grown) :
                         snake_game' = [snake_game EXCEPT
                                          !.snake = grown,
                                          !.score = @ + 1,
                                          !.food = f,
                                          !.moved = snake_game.direction]
          ELSE snake_game' = [snake_game EXCEPT
                                !.snake = SubSeq(grown, 1, Len(grown) - 1),
                                !.moved = snake_game.direction]
    /\ UNCHANGED <<pathfinding, listener, game, typist, sock, hid>>

\* if not game.alive: ... game.reset()
Reset ==
    /\ snake_game.pc = "loop"
    /\ ~snake_game.alive
    /\ \E f \in FreeCells(snake_game.grid,
                          reset(snake_game.grid, None).snake) :
          snake_game' = reset(snake_game.grid, f)
    /\ UNCHANGED <<pathfinding, listener, game, typist, sock, hid>>

SnakeNext ==
    \/ UpdateDirection
    \/ Move
    \/ Reset

SnakeSpec == SnakeInit /\ [][SnakeNext]_vars

-----------------------------------------------------------------------------
\* socket_listener.py: SocketListener and one client connection. The bytes
\* of the connection are taken in pieces that no recv splits: the three
\* members of a message and the newline.

NL == "\n"

\* the text of a "key" member and its value
KeyMember ==
    ("{\"key\": \"up\", " :> "up") @@ ("{\"key\": \"down\", " :> "down")
    @@ ("{\"key\": \"left\", " :> "left") @@ ("{\"key\": \"right\", " :> "right")
    @@ ("{\"key\": \"space\", " :> "space")

\* the text of an "is_down" member and its value
IsDownMember ==
    ("\"is_down\": true, " :> TRUE) @@ ("\"is_down\": false, " :> FALSE)

\* the text of a "ts" member and its value: a number, or a string that is no
\* number
TsMember ==
    ("\"ts\": 1.5}" :> [number |-> TRUE, value |-> "1.5"])
    @@ ("\"ts\": \"soon\"}" :> [number |-> FALSE, value |-> "soon"])

\* json.loads(line.decode('utf-8')): an object of the three members, or an
\* exception for any other text
json_loads(line) ==
    IF /\ Len(line) = 3
       /\ line[1] \in DOMAIN KeyMember
       /\ line[2] \in DOMAIN IsDownMember
       /\ line[3] \in DOMAIN TsMember
    THEN [raised |-> FALSE, key |-> KeyMember[line[1]],
          is_down |-> IsDownMember[line[2]], ts |-> TsMember[line[3]]]
    ELSE [raised |-> TRUE]

\* the lines a client may send: two arrow messages, a message of another
\* key, an arrow message whose ts is no number, a message cut short, an empty
\* line
SentLines ==
    { <<"{\"key\": \"up\", ", "\"is_down\": true, ", "\"ts\": 1.5}">>,
      <<"{\"key\": \"left\", ", "\"is_down\": false, ", "\"ts\": 1.5}">>,
      <<"{\"key\": \"space\", ", "\"is_down\": true, ", "\"ts\": 1.5}">>,
      <<"{\"key\": \"down\", ", "\"is_down\": true, ", "\"ts\": \"soon\"}">>,
      <<"{\"key\": \"right\", ", "\"is_down\": true, ">>,
      <<>> }

\* the byte streams of a connection: up to MaxLines lines, each followed by
\* a newline except perhaps the last
RECURSIVE Streams(_)
Streams(n) ==
    IF n = 0 THEN {<<>>}
    ELSE LET shorter == Streams(n - 1)
         IN shorter \cup {l \o <<NL>> \o t : l \in SentLines, t \in shorter}
                    \cup (IF n = 1 THEN SentLines ELSE {})

\* the body of the try block for one line: key_states and event_queue after
\* it; an exception leaves both as they are
HandleLine(line, l) ==
    LET msg == json_loads(line) IN
    IF msg.raised THEN l
    ELSE IF ~msg.ts.number THEN l                 \* float() raises
    ELSE IF msg.key \in Keys
    THEN [l EXCEPT
            !.key_states = IF msg.is_down THEN @ \cup {msg.key}
                           ELSE @ \ {msg.key},
            !.event_queue = Append(@, <<msg.key, msg.is_down, msg.ts.value>>)]
    ELSE l

\* the index of the first newline of buf, 0 if there is none
RECURSIVE FirstNL(_, _)
FirstNL(buf, i) ==
    IF i > Len(buf) THEN 0
    ELSE IF buf[i] = NL THEN i
    ELSE FirstNL(buf, i + 1)

\* mutant: if b'\n' in buf, one line is handled for each recv
Drain_OneLine(l) ==
    LET i == FirstNL(l.buf, 1) IN
    IF i = 0 THEN l
    ELSE HandleLine(SubSeq(l.buf, 1, i - 1),
                    [l EXCEPT !.buf = SubSeq(@, i + 1, Len(@))])

\* while b'\n' in buf: line, buf = buf.split(b'\n', 1); ...
RECURSIVE Drain(_)
Drain(l) ==
    LET i == FirstNL(l.buf, 1) IN
    IF i = 0 THEN l
    ELSE Drain(HandleLine(SubSeq(l.buf, 1, i - 1),
                          [l EXCEPT !.buf = SubSeq(@, i + 1, Len(@))]))

\* SocketListener(): the fields after __init__; thread is the position of
\* the accept thread, stream the bytes the client will send, received the
\* number of them recv has returned, recvs the number of recv calls that
\* have returned bytes
SocketInit ==
    /\ NoSearch
    /\ listener = NewListener
    /\ game = NewGame
    /\ typist = [pattern |-> <<>>, lost |-> 0]
    /\ snake_game = None
    /\ hid = None
    /\ \E stream \in Streams(MaxLines) :
          sock = [thread |-> "none", running |-> FALSE, client |-> "None",
                  buf |-> <<>>, key_states |-> {}, event_queue |-> <<>>,
                  stream |-> stream, received |-> 0, recvs |-> 0]

\* start()
SocketStart ==
    /\ sock.thread = "none"
    /\ sock' = [sock EXCEPT !.running = TRUE, !.thread = "accept"]
    /\ UNCHANGED <<pathfinding, listener, game, typist, snake_game, hid>>

\* stop(), from another thread: the client socket is closed
SocketStop ==
    /\ sock.running
    /\ sock' = [sock EXCEPT !.running = FALSE]
    /\ UNCHANGED <<pathfinding, listener, game, typist, snake_game, hid>>

\* while self.running: client, _ = self.server.accept(); buf = b''
\* the one client connects, or the loop ends after stop()
Accept ==
    /\ sock.thread = "accept"
    /\ IF sock.running
       THEN /\ sock.client = "None" /\ sock.received = 0
            /\ sock' = [sock EXCEPT !.client = "connected", !.buf = <<>>,
                                    !.thread = "test"]
       ELSE sock' = [sock EXCEPT !.thread = "exited"]
    /\ UNCHANGED <<pathfinding, listener, game, typist, snake_game, hid>>

\* while self.running: (the read loop); left after stop(): client.close()
ReadTest ==
    /\ sock.thread = "test"
    /\ sock' = IF sock.running
               THEN [sock EXCEPT !.thread = "recv"]
               ELSE [sock EXCEPT !.thread = "accept", !.client = "None"]
    /\ UNCHANGED <<pathfinding, listener, game, typist, snake_game, hid>>

\* data = client.recv(4096) returns some of the bytes not yet received;
\* buf += data; every complete line of buf is handled
Recv ==
    /\ sock.thread = "recv"
    /\ \E n \in 1..(Len(sock.stream) - sock.received) :
          sock' = Drain([sock EXCEPT
                           !.buf = @ \o SubSeq(sock.stream, sock.received + 1,
                                               sock.received + n),
                           !.received = @ + n,
                           !.recvs = @ + 1,
                           !.thread = "test"])
    /\ UNCHANGED <<pathfinding, listener, game, typist, snake_game, hid>>

\* recv returns b'' (the client has sent everything and closed) or raises
\* (the socket was closed by stop()): the read loop is left
RecvEnd ==
    /\ sock.thread = "recv"
    /\ sock.received = Len(sock.stream) \/ ~sock.running
    /\ sock' = [sock EXCEPT !.thread = "accept", !.client = "None"]
    /\ UNCHANGED <<pathfinding, listener, game, typist, snake_game, hid>>

SocketNext ==
    \/ SocketStart
    \/ SocketStop
    \/ Accept
    \/ ReadTest
    \/ Recv
    \/ RecvEnd

SocketSpec == SocketInit /\ [][SocketNext]_vars

-----------------------------------------------------------------------------
\* hid_listener.py: HIDListener and its read thread (_run)

\* USAGE_ARROW_MAP: 0x52, 0x51, 0x4F, 0x50
USAGE_ARROW_MAP == (82 :> "up") @@ (81 :> "down") @@ (79 :> "right") @@ (80 :> "left")

\* max_errors = 10
max_errors == 10

\* the usages a key slot of a report may hold: two arrow keys and the
\* letter a
Usages == {82, 80, 4}

\* the members of a set of usages in increasing order
RECURSIVE Ascending(_)
Ascending(U) ==
    IF U = {} THEN <<>>
    ELSE LET m == CHOOSE x \in U : \A y \in U : x <= y
         IN <<m>> \o Ascending(U \ {m})

\* a boot keyboard report [mod, reserved, k1, ..., k6] with the keys of U
\* down
Report(U) ==
    <<0, 0>> \o Ascending(U) \o [i \in 1..(6 - Cardinality(U)) |-> 0]

Reports == {Report(U) : U \in SUBSET Usages}

\* keys = set(); for usage in buf[2:]: ...
ReportKeys(buf) ==
    {USAGE_ARROW_MAP[buf[i]] :
        i \in {j \in 3..Len(buf) : buf[j] # 0 /\ buf[j] \in DOMAIN USAGE_ARROW_MAP}}

\* the orders in which a for loop may run over a set
RECURSIVE Orders(_)
Orders(S) ==
    IF S = {} THEN {<<>>}
    ELSE UNION {{<<x>> \o t : t \in Orders(S \ {x})} : x \in S}

\* HIDListener(): the fields after __init__, and the locals of _run; thread
\* is the position of the read thread. reports counts the reads that have
\* returned data, failed_in_a_row the reads that have raised since the
\* latest read that has not
HIDInit ==
    /\ NoSearch
    /\ listener = NewListener
    /\ game = NewGame
    /\ typist = [pattern |-> <<>>, lost |-> 0]
    /\ snake_game = None
    /\ sock = None
    /\ hid = [thread |-> "none", running |-> FALSE, key_states |-> {},
              event_queue |-> <<>>, prev_keys |-> {}, error_count |-> 0,
              data |-> <<>>, reports |-> 0, failed_in_a_row |-> 0]

\* start(): the device is open, running is set, _run begins
HIDStart ==
    /\ hid.thread = "none"
    /\ hid' = [hid EXCEPT !.running = TRUE, !.thread = "loop"]
    /\ UNCHANGED <<pathfinding, listener, game, typist, snake_game, sock>>

\* stop(), from another thread
HIDStop ==
    /\ hid.running
    /\ hid' = [hid EXCEPT !.running = FALSE]
    /\ UNCHANGED <<pathfinding, listener, game, typist, snake_game, sock>>

\* while self.running: ... if not self.running: break
HIDLoopTest ==
    /\ hid.thread = "loop"
    /\ hid' = [hid EXCEPT
                 !.thread = IF hid.running THEN "read" ELSE "exited"]
    /\ UNCHANGED <<pathfinding, listener, game, typist, snake_game, sock>>

\* self.dev.read returns nothing within the timeout: if not data: continue
ReadNoData ==
    /\ hid.thread = "read"
    /\ hid' = [hid EXCEPT !.data = <<>>, !.thread = "loop",
                          !.failed_in_a_row = 0]
    /\ UNCHANGED <<pathfinding, listener, game, typist, snake_game, sock>>

\* self.dev.read returns a report: the counter is reset, the keys of the
\* report are compared with prev_keys, DOWN and UP events are queued
ReadReport ==
    /\ hid.thread = "read"
    /\ hid.reports < MaxReports
    /\ \E buf \in Reports :
          LET keys == ReportKeys(buf)
              down == keys \ hid.prev_keys
              up == hid.prev_keys \ keys
          IN \E ds \in Orders(down), us \in Orders(up) :
                hid' = [hid EXCEPT
                          !.data = buf,
                          !.error_count = 0,
                          !.key_states = (@ \cup down) \ up,
                          !.event_queue =
                              @ \o [i \in 1..Len(ds) |-> <<ds[i], TRUE>>]
                                \o [i \in 1..Len(us) |-> <<us[i], FALSE>>],
                          !.prev_keys = keys,
                          !.reports = @ + 1,
                          !.failed_in_a_row = 0,
                          !.thread = "loop"]
    /\ UNCHANGED <<pathfinding, listener, game, typist, snake_game, sock>>

\* self.dev.read raises: an OSError after stop() ends the loop; any other
\* error is counted, and the max_errors-th clears running and ends the loop
ReadError ==
    /\ hid.thread = "read"
    /\ \E e \in {"OSError", "Exception"} :
          IF e = "OSError" /\ ~hid.running
          THEN hid' = [hid EXCEPT !.thread = "exited"]
          ELSE hid' = [hid EXCEPT
                         !.error_count = @ + 1,
                         !.failed_in_a_row = @ + 1,
                         !.running = IF hid.error_count + 1 >= max_errors
                                     THEN FALSE ELSE @,
                         !.thread = IF hid.error_count + 1 >= max_errors
                                    THEN "exited" ELSE "loop"]
    /\ UNCHANGED <<pathfinding, listener, game, typist, snake_game, sock>>

HIDNext ==
    \/ HIDStart
    \/ HIDStop
    \/ HIDLoopTest
    \/ ReadNoData
    \/ ReadReport
    \/ ReadError

HIDSpec == HIDInit /\ [][HIDNext]_vars

----------------------------------------------------------------------------
\* Vocabulary of the properties

StartEndInBounds == InBounds(start, width, height) /\ InBounds(end, width, height)

\* the generator is suspended at its terminal yield or has returned
Terminated == pc \in {"found", "no_path", "done"}

Last(s) == s[Len(s)]

IsTerminal(e) == e[1] \in {"found", "no_path"}

\* the coordinates an event names
EventCoords(e) ==
    IF e[1] \in {"exploring", "visited"} THEN {e[2]}
    ELSE IF e[1] = "found" THEN Range(e[2])
    ELSE {}

Adjacent(a, b) ==
    \/ a[1] = b[1] /\ (a[2] = b[2] + 1 \/ b[2] = a[2] + 1)
    \/ a[2] = b[2] /\ (a[1] = b[1] + 1 \/ b[1] = a[1] + 1)

\* the cells reached from the set S by unit moves inside the grid that avoid obs
RECURSIVE Closure(_, _, _, _)
Closure(S, w, h, obs) ==
    LET N == S \cup {c \in Cells(w, h) \ obs : \E s \in S : Adjacent(c, s)}
    IN IF N = S THEN S ELSE Closure(N, w, h, obs)

Reachable(s, e, w, h, obs) == e \in Closure({s}, w, h, obs)

\* a valid input whose obstacle set cuts end off from start
Separated ==
    /\ StartEndInBounds
    /\ start \notin obstacles /\ end \notin obstacles
    /\ ~Reachable(start, end, width, height, obstacles)

----------------------------------------------------------------------------
\* C1: given a grid with an obstacle set (start and end in bounds and not
\* obstacles), no Exploring or Visited event names an obstacle coordinate and
\* no Found path contains one.
C1_NoEventNamesObstacle ==
    (StartEndInBounds /\ start \notin obstacles /\ end \notin obstacles)
        => \A i \in 1..Len(events) : EventCoords(events[i]) \cap obstacles = {}

\* C2: when the obstacle set separates start from end, nothing is raised
\* mid-traversal and the terminal event of the run is NoPath.
C2_SeparatedEndsNoPath ==
    Separated => /\ pc # "raised"
                 /\ Terminated => Last(events) = <<"no_path", None>>

\* C3: for in-bounds start and end the event sequence is finite (nothing is
\* raised and the sequence never grows past 4*width*height + 1 events), it
\* holds exactly one terminal event once the run has ended, and the terminal
\* event is the last event: nothing is yielded after it, also not by the
\* pull that follows it.
C3_OneTerminalEventLast ==
    StartEndInBounds =>
        /\ \A i \in 1..Len(events) : IsTerminal(events[i]) => i = Len(events)
        /\ Len(events) <= 4 * width * height + 1
        /\ pc # "raised"
        /\ Terminated <=> (events # <<>> /\ IsTerminal(Last(events)))

C3_Witness ==
    /\ StartEndInBounds
    /\ pc = "done"
    /\ Len(events) >= 5
    /\ alg = "random_walk"
    /\ Last(events)[1] = "no_path"

C5_FoundPathEndpoints ==
    \A i \in 1..Len(events) :
        events[i][1] = "found" =>
            /\ Len(events[i][2]) >= 1
            /\ events[i][2][1] = start
            /\ Last(events[i][2]) = end

C5_Witness ==
    /\ alg = "bidirectional"
    /\ pc = "found"
    /\ Len(Last(events)[2]) >= 4
    /\ start # end

\* C6: every consecutive pair of coordinates of an emitted Found path differs
\* by exactly one unit in exactly one axis.
C6_FoundPathAdjacent ==
    \A i \in 1..Len(events) :
        events[i][1] = "found" =>
            \A k \in 1..(Len(events[i][2]) - 1) :
                Adjacent(events[i][2][k], events[i][2][k + 1])

\* a jump-point-search path that densification has lengthened
C6_Witness ==
    /\ alg = "jps"
    /\ pc = "found"
    /\ Len(Last(events)[2]) > Len(ParentChain(end, parent))

\* C7: when start and end are in bounds, every coordinate named by an
\* Exploring or Visited event and every coordinate of a Found path is in
\* bounds.
C7_EventsInBounds ==
    StartEndInBounds =>
        \A i \in 1..Len(events) :
            \A c \in EventCoords(events[i]) :
                0 <= c[1] /\ c[1] < width /\ 0 <= c[2] /\ c[2] < height

\* a jump that stopped at the far corner of the grid
C7_Witness ==
    /\ alg = "jps"
    /\ StartEndInBounds
    /\ width = MaxDim /\ height = MaxDim
    /\ pc = "exploring"
    /\ current = <<width - 1, height - 1>>
    /\ start = <<0, 0>>

\* C8: on an obstacle-free grid with in-bounds start and end, BFS, Dijkstra
\* and A* each end with Found carrying a path whose edge count equals the
\* Manhattan distance between start and end.
C8_ShortestOnOpenGrid ==
    (alg \in {"bfs", "dijkstra", "astar"} /\ obstacles = {} /\ StartEndInBounds
     /\ Terminated)
        => /\ Last(events)[1] = "found"
           /\ Len(Last(events)[2]) - 1 =
                 Abs(start[1] - end[1]) + Abs(start[2] - end[2])

C8_Witness ==
    /\ alg = "astar" /\ obstacles = {} /\ StartEndInBounds
    /\ pc = "found"
    /\ Len(Last(events)[2]) = 5

\* C9: for BFS, DFS, Dijkstra, A*, greedy and bidirectional search, whenever
\* end is reachable from start by unit moves inside the grid, the terminal
\* event is Found.
C9_ReachableEndsFound ==
    (alg \in {"bfs", "dfs", "dijkstra", "astar", "greedy", "bidirectional"}
     /\ StartEndInBounds
     /\ Reachable(start, end, width, height, {})
     /\ Terminated)
        => Last(events)[1] = "found"

C9_Witness ==
    /\ alg = "greedy"
    /\ StartEndInBounds
    /\ Reachable(start, end, width, height, obstacles)
    /\ obstacles # {}
    /\ pc = "done"
    /\ Len(events) >= 7

\* C10: for jump point search, whenever end is reachable from start inside
\* the grid, in particular on every obstacle-free grid with in-bounds start
\* and end, the terminal event is Found.
C10_JPSReachableEndsFound ==
    (alg = "jps"
     /\ StartEndInBounds
     /\ obstacles = {}
     /\ Reachable(start, end, width, height, {})
     /\ Terminated)
        => Last(events)[1] = "found"

\* the number of events of one type in an event sequence
CountType(ev, t) == Cardinality({i \in 1..Len(ev) : ev[i][1] = t})

C13_BidirectionalSamePoint ==
    (alg = "bidirectional" /\ start = end /\ pc \notin {"call", "start", "call_failed"}) =>
        /\ events = << <<"found", <<start>>>> >>
        /\ pc \in {"found", "done"}

\* a bidirectional search with start = end on a grid with other cells to
\* explore has returned
C13_Witness ==
    /\ alg = "bidirectional" /\ start = end /\ InBounds(start, width, height)
    /\ width * height > 1
    /\ pc = "done"
    /\ Len(events) = 1

\* the inputs section 7 of the specification calls InvalidInput
InvalidInput ==
    \/ width <= 0 \/ height <= 0
    \/ ~InBounds(start, width, height) \/ ~InBounds(end, width, height)
    \/ start \in obstacles \/ end \in obstacles

\* C14: a search invoked with an out-of-bounds start or end, a non-positive
\* width or height, or start or end on an obstacle is rejected at call time:
\* the call never hands out a generator (the run stays before the call or
\* ends in the call's exception) and no event is ever emitted.
C14_InvalidInputRejected ==
    InvalidInput =>
        /\ pc \in {"call", "call_failed"}
        /\ events = <<>>

\* the in-bounds cells among (x+1,y), (x,y+1), (x-1,y), (x,y-1), in that order
RightDownLeftUp(c, w, h) ==
    SelectSeq(<< <<c[1] + 1, c[2]>>, <<c[1], c[2] + 1>>,
                 <<c[1] - 1, c[2]>>, <<c[1], c[2] - 1>> >>,
              LAMBDA n : InBounds(n, w, h))

\* C16: get_neighbors of the coordinate a search expands returns exactly the
\* in-bounds cells among (x+1,y), (x,y+1), (x-1,y), (x,y-1), in that order
\* (Right, Down, Left, Up).
C16_NeighborsRightDownLeftUp ==
    (StartEndInBounds /\ current # None /\ pc \in {"exploring", "visited"}) =>
        get_neighbors(current, width, height)
            = RightDownLeftUp(current, width, height)

PrioritySearch == alg \in {"dijkstra", "astar", "jps"}

\* a step that leaves every popped coordinate of a priority search as it is
PoppedKept ==
    /\ visited \subseteq visited'
    /\ \A c \in visited :
          /\ c \in DOMAIN cost /\ c \in DOMAIN cost'
          /\ cost'[c] = cost[c]
          /\ c \in DOMAIN parent /\ c \in DOMAIN parent'
          /\ parent'[c] = parent[c]
    /\ (events' # events /\ Last(events')[1] = "exploring")
          => Last(events')[2] \notin visited

Ahead(c, d, k) == <<c[1] + k * d[1], c[2] + k * d[2]>>

\* C19: a jump point returned by _jump for a coordinate and a cardinal
\* direction is in bounds and lies 1, 2 or 3 cells from the coordinate on
\* the line in that direction; it is the goal when the goal is on that line
\* before it, and the last in-bounds cell of the line when the grid ends
\* less than 3 cells away and the goal is not on the way.
C19_JumpWithinThree ==
    (pc = "jump_return" /\ jump_result # None) =>
        /\ InBounds(jump_result, width, height)
        /\ \E k \in 1..3 :
              /\ jump_result = Ahead(current, direction, k)
              /\ \A j \in 1..(k - 1) : Ahead(current, direction, j) # end
              /\ \/ jump_result = end
                 \/ k = 3
                 \/ ~InBounds(Ahead(current, direction, k + 1), width, height)

\* the two generators of the caller, whichever it is pulling
Paired == active \in {"A", "B"}

GenA == IF active = "A" THEN Frame(alg, pc, exception, events, locals) ELSE other

GenB == IF active = "B" THEN Frame(alg, pc, exception, events, locals) ELSE other

IsPrefix(s, t) == Len(s) <= Len(t) /\ \A i \in 1..Len(s) : s[i] = t[i]

Ended(f) == f.pc \in {"found", "no_path", "done"}

C18_AStarOptimalFewerExpansions ==
    (/\ Paired
     /\ GenA.alg = "astar" /\ GenB.alg \in {"bfs", "dijkstra"}
     /\ Ended(GenA) /\ Ended(GenB)) =>
        /\ Last(GenA.events)[1] = Last(GenB.events)[1]
        /\ Last(GenA.events)[1] = "found" =>
              Len(Last(GenA.events)[2]) = Len(Last(GenB.events)[2])
        /\ GenB.alg = "dijkstra" =>
              CountType(GenA.events, "exploring")
                  <= CountType(GenB.events, "exploring")

\* A* and Dijkstra have both found a path of at least two edges between the
\* same cells, and A* has emitted fewer Exploring events
C18_Witness ==
    /\ Paired
    /\ GenA.alg = "astar" /\ GenB.alg = "dijkstra"
    /\ GenA.pc = "done" /\ GenB.pc = "done"
    /\ Last(GenA.events)[1] = "found"
    /\ Len(Last(GenA.events)[2]) >= 3
    /\ CountType(GenA.events, "exploring") < CountType(GenB.events, "exploring")

\* the coordinates named by the Exploring events of an event sequence
Explored(ev) == {ev[i][2] : i \in {j \in 1..Len(ev) : ev[j][1] = "exploring"}}

NoDuplicates(s) == \A i, j \in 1..Len(s) : i # j => s[i] # s[j]

\* C21: in BFS and DFS the frontier (queue or stack) never holds a
\* coordinate twice, every coordinate in it is in visited, and none of them
\* has been taken out of the frontier before (no Exploring event names it):
\* a coordinate enters the frontier at most once per run. Every visited
\* coordinate is in the frontier or has been taken out of it.
C21_FrontierInsertedOnce ==
    (alg \in {"bfs", "dfs"} /\ pc \notin {"call", "start", "call_failed"}) =>
        /\ NoDuplicates(queue)
        /\ Range(queue) \subseteq visited
        /\ Range(queue) \cap Explored(events) = {}
        /\ visited = Range(queue) \cup Explored(events)

\* a BFS or DFS is expanding a coordinate with a neighbour that is visited
\* already, other than the one it came from, while the frontier holds
\* several coordinates
C21_Witness ==
    /\ alg \in {"bfs", "dfs"}
    /\ pc = "visited"
    /\ Len(queue) >= 2
    /\ \E i \in 1..Len(get_neighbors(current, width, height)) :
          /\ get_neighbors(current, width, height)[i] \in visited
          /\ get_neighbors(current, width, height)[i] # parent[current]

\* C22: in greedy best-first search a coordinate is pushed onto the priority
\* queue at most once per run: the queue never holds two entries of one
\* coordinate, nor an entry of a coordinate that has been popped and
\* honoured already.
C22_GreedyPushedOnce ==
    (alg = "greedy" /\ StartEndInBounds) =>
        /\ \A i, j \in 1..Len(pq) : i # j => pq[i][2] # pq[j][2]
        /\ \A i \in 1..Len(pq) : pq[i][2] \notin visited

\* a step that overwrites no entry of a parent map
ParentKept ==
    /\ \A c \in DOMAIN parent :
          c \in DOMAIN parent' /\ parent'[c] = parent[c]
    /\ \A c \in DOMAIN parent_backward :
          c \in DOMAIN parent_backward' /\ parent_backward'[c] = parent_backward[c]
    /\ start \in DOMAIN parent => parent[start] = None

\* C23: in every algorithm, once parent[c] has been written no pull
\* overwrites it (the parent of a coordinate is the coordinate that first
\* discovered it), and parent[start] is None whenever it is there.
C23_ParentWrittenOnce ==
    [][StartEndInBounds => ParentKept]_vars

\* the coordinates named by the Exploring events, in order
ExploringSeq(ev) ==
    LET ex == SelectSeq(ev, LAMBDA e : e[1] = "exploring")
    IN [i \in 1..Len(ex) |-> ex[i][2]]

\* the number of unit moves of a shortest path from a cell of S to c through
\* cells of the grid, counted from k; -1 when there is none
RECURSIVE StepsTo(_, _, _, _, _)
StepsTo(S, c, w, h, k) ==
    IF c \in S THEN k
    ELSE LET N == S \cup {n \in Cells(w, h) : \E x \in S : Adjacent(n, x)}
         IN IF N = S THEN -1 ELSE StepsTo(N, c, w, h, k + 1)

Distance(s, c, w, h) == StepsTo({s}, c, w, h, 0)

\* C24: in BFS and in Dijkstra the shortest-path distance from start of the
\* coordinate named never decreases along the Exploring events (level
\* order), and every coordinate named can be reached from start.
C24_LevelOrder ==
    alg \in {"bfs", "dijkstra"} =>
        LET ex == ExploringSeq(events) IN
        /\ \A i \in 1..Len(ex) : Distance(start, ex[i], width, height) >= 0
        /\ \A i \in 1..(Len(ex) - 1) :
              Distance(start, ex[i], width, height)
                  <= Distance(start, ex[i + 1], width, height)

\* a BFS or Dijkstra run has returned after exploring at least two cells at
\* distance 1 from start and then a cell at distance 3
C24_Witness ==
    /\ alg \in {"bfs", "dijkstra"}
    /\ pc = "done"
    /\ LET ex == ExploringSeq(events) IN
       /\ Len(ex) >= 5
       /\ Distance(start, ex[2], width, height) = 1
       /\ Distance(start, ex[3], width, height) = 1
       /\ Distance(start, ex[Len(ex)], width, height) = 3

\* f = g + h of a coordinate A* has honoured: its recorded g_score plus the
\* Manhattan distance to end
FScore(c) == cost[c] + manhattan_distance(c, end)

\* C25: A* honours its frontier entries in nondecreasing order of f = g + h,
\* h the Manhattan distance to end, and among entries of equal f the smaller
\* g first: along the Exploring events f of the coordinate named never
\* decreases, and where it stays equal g does not decrease; the coordinate
\* being explored has no entry left in the frontier that should come
\* before it.
C25_AStarOrder ==
    alg = "astar" =>
        LET ex == ExploringSeq(events) IN
        /\ \A i \in 1..(Len(ex) - 1) :
              \/ FScore(ex[i]) < FScore(ex[i + 1])
              \/ FScore(ex[i]) = FScore(ex[i + 1]) /\ cost[ex[i]] <= cost[ex[i + 1]]
        /\ pc = "exploring" =>
              \A k \in 1..Len(pq) :
                  \/ FScore(current) < pq[k][1]
                  \/ FScore(current) = pq[k][1] /\ current_g <= pq[k][2]

\* an A* run has returned after two consecutive Exploring events of equal f
\* and different g, and after a later Exploring event of larger f
C25_Witness ==
    /\ alg = "astar"
    /\ pc = "done"
    /\ LET ex == ExploringSeq(events) IN
       /\ \E i \in 1..(Len(ex) - 1) :
             FScore(ex[i]) = FScore(ex[i + 1]) /\ cost[ex[i]] < cost[ex[i + 1]]
       /\ \E i \in 1..(Len(ex) - 1) : FScore(ex[i]) < FScore(ex[i + 1])

\* the neighbours of the coordinate being expanded that are not visited, in
\* the enumerator's order
UnvisitedNeighbors ==
    SelectSeq(get_neighbors(current, width, height), LAMBDA n : n \notin visited)

\* the pull that expands a coordinate with an unvisited neighbour yields
\* Exploring of the first of them
FirstUnvisitedNext ==
    (pc = "visited" /\ UnvisitedNeighbors # <<>>) =>
        /\ Len(events') = Len(events) + 1
        /\ Last(events') = <<"exploring", UnvisitedNeighbors[1]>>

\* C26: in DFS, when the coordinate just expanded has a neighbour not yet
\* visited, the next Exploring event (the next event at all) names the first
\* such neighbour in the order get_neighbors enumerates them.
C26_DFSFirstNeighborNext ==
    [][alg = "dfs" => FirstUnvisitedNext]_vars

\* a DFS is exploring a coordinate that was pushed together with another
\* neighbour of the coordinate expanded just before, the other one still on
\* the stack
C26_Witness ==
    /\ alg = "dfs"
    /\ pc = "exploring"
    /\ Len(events) >= 4
    /\ events[Len(events) - 1] = <<"visited", parent[current]>>
    /\ queue # <<>>
    /\ parent[Last(queue)] = parent[current]

\* the numbers of coordinates each side of bidirectional search has taken
\* from its queue: those it has marked visited and no longer holds
ForwardPops == Cardinality(visited \ Range(queue))

BackwardPops == Cardinality(visited_backward \ Range(queue_backward))

\* the state of a bidirectional search whose sides take turns
SidesTakeTurns ==
    (alg = "bidirectional" /\ start # end
         /\ pc \notin {"call", "start", "call_failed"}) =>
        LET ex == ExploringSeq(events) IN
        /\ ForwardPops - BackwardPops \in {0, 1}
        /\ ForwardPops + BackwardPops = Len(ex)
        /\ pc \in {"exploring", "visited"} => ForwardPops = BackwardPops + 1
        /\ pc \in {"exploring_backward", "visited_backward"} =>
               ForwardPops = BackwardPops
        /\ ex[1] = start
        /\ Len(ex) >= 2 => ex[2] = end
        /\ \A i \in 1..Len(ex) :
              IF i % 2 = 1
              THEN ex[i] \in visited \ Range(queue)
              ELSE ex[i] \in visited_backward \ Range(queue_backward)
        /\ DOMAIN parent = visited
        /\ DOMAIN parent_backward = visited_backward

\* a pull of bidirectional search adds to one side only: the pull after a
\* forward Visited adds the neighbours to the forward visited set and parent
\* map and leaves those of the backward side alone, and the other way
\* round; the pull after an Exploring event adds nothing
OneSidePerPull ==
    (alg = "bidirectional" /\ pc # "start") =>
        /\ pc = "visited" =>
              UNCHANGED <<visited_backward, parent_backward>>
        /\ pc = "visited_backward" =>
              UNCHANGED <<visited, parent>>
        /\ pc \in {"exploring", "exploring_backward"} =>
              UNCHANGED <<visited, parent, visited_backward, parent_backward>>

\* C27: in bidirectional search with start # end the expansions alternate
\* forward, backward, forward, ... starting with the forward side: the first
\* Exploring event names start, the second names end, the odd Exploring
\* events are pops of the forward queue and the even ones pops of the
\* backward queue, the forward pops exceed the backward pops by 0 or 1, and
\* each side has its own visited set and parent map, which the other side's
\* pulls leave alone.
C27_BidirectionalAlternates ==
    []SidesTakeTurns /\ [][OneSidePerPull]_vars

\* both sides have taken two coordinates each and the backward side has
\* just finished its second
C27_Witness ==
    /\ alg = "bidirectional" /\ start # end
    /\ pc = "visited_backward"
    /\ ForwardPops = 2 /\ BackwardPops = 2

\* C28: in bidirectional search with start # end, Found is emitted exactly
\* when the coordinate just taken by one side is in the other side's visited
\* set (after a Visited event it was not), and the path emitted is the
\* forward parent chain from start to that meeting coordinate followed by
\* the backward parent chain from the meeting coordinate's backward parent
\* to end: it starts at start, ends at end and holds the meeting coordinate
\* exactly once.
C28_MeetInTheMiddle ==
    (alg = "bidirectional" /\ start # end) =>
        /\ pc = "visited" => current \notin visited_backward
        /\ pc = "visited_backward" => current \notin visited
        /\ pc = "found" =>
              LET path == Last(events)[2] IN
              /\ events[Len(events) - 1] = <<"exploring", current>>
              /\ current \in visited /\ current \in visited_backward
              /\ path = Reverse(ParentChain(current, parent))
                          \o ParentChain(parent_backward[current], parent_backward)
              /\ path[1] = start
              /\ Last(path) = end
              /\ Cardinality({i \in 1..Len(path) : path[i] = current}) = 1

\* Found with a meeting coordinate that is neither start nor end, on a path
\* of at least four coordinates
C28_Witness ==
    /\ alg = "bidirectional"
    /\ pc = "found"
    /\ current # start /\ current # end
    /\ Len(Last(events)[2]) >= 4

\* C29: visualize_algorithm pulls the events of the search it calls one at
\* a time and ends by returning, False at the first pull after stop_event is
\* set, True after Found, False after NoPath: the find_path call it makes
\* hands it a generator to pull, it never ends in the exception of that call.
C29_ConsumerPullsAndReturns ==
    /\ pc # "call_failed"
    /\ exception # "TypeError"

\* the recognised arrow presses, in the order the reader thread read them
Pressed == listener.event_queue

\* the presses neither returned by consume_direction nor discarded
Pending ==
    SubSeq(Pressed, game.consumed + typist.lost + 1, Len(Pressed))

\* the deque holds the pending presses, oldest first, and at most maxlen
PendingQueued ==
    /\ Len(listener.direction_queue) <= maxlen
    /\ game.consumed + typist.lost + Len(listener.direction_queue) = Len(Pressed)
    /\ listener.direction_queue = Pending

\* a press is discarded only when it arrives while maxlen are pending
LostOnlyWhenFull ==
    typist'.lost # typist.lost => Len(listener.direction_queue) = maxlen

\* a consume_direction call returns None on an empty deque, and otherwise
\* the oldest press not yet returned or discarded
ConsumeInOrder ==
    /\ (game.pc = "idle" /\ game' # game) =>
          IF listener.direction_queue = <<>>
          THEN game'.pc = "idle" /\ game'.new_dir = "None"
          ELSE game'.pc = "popleft" /\ game'.new_dir = game.new_dir
    /\ (game.pc = "popleft" /\ game'.pc = "idle") =>
          /\ game'.new_dir = Pressed[game.consumed + typist.lost + 1]
          /\ game'.consumed = game.consumed + 1
          /\ Len(listener'.direction_queue) + 1 = Len(listener.direction_queue)

\* C30: consume_direction returns the recognised arrow presses in press
\* order, each once, none missing unless it arrived while 16 were pending;
\* the deque never holds more than 16; on an empty deque the call returns
\* None
C30_PressesDeliveredInOrder ==
    /\ []PendingQueued
    /\ [][LostOnlyWhenFull /\ ConsumeInOrder]_vars

\* a press has been returned, sixteen more are pending, none was discarded,
\* and the typist has pressed two different keys
C30_Witness ==
    /\ game.pc = "idle"
    /\ game.consumed >= 1
    /\ game.new_dir = Pressed[game.consumed]
    /\ typist.lost = 0
    /\ Len(listener.direction_queue) = maxlen
    /\ \E i, j \in 1..Len(Pressed) : Pressed[i] # Pressed[j]

\* the summed Manhattan length of the links from c back to the coordinate
\* whose parent is None
RECURSIVE ChainLength(_, _)
ChainLength(c, par) ==
    IF par[c] = None THEN 0
    ELSE manhattan_distance(c, par[c]) + ChainLength(par[c], par)

CostSearch == alg \in {"dijkstra", "astar", "jps"}

\* C32: in dijkstra, astar and jps, whenever the generator is suspended the
\* cost recorded for a coordinate is the summed Manhattan length of its
\* parent chain back to start, and the Found path has as many edges as the
\* cost recorded for end.
C32_CostIsChainLength ==
    CostSearch =>
        /\ \A c \in DOMAIN cost :
              /\ c \in DOMAIN parent
              /\ cost[c] = ChainLength(c, parent)
        /\ pc = "found" => Len(Last(events)[2]) - 1 = cost[end]

\* jps has found an end that lies two jumps from start
C32_Witness ==
    /\ alg = "jps" /\ pc = "found"
    /\ cost[end] >= 3
    /\ parent[end] # start
    /\ Len(Last(events)[2]) = cost[end] + 1

\* C33: on an obstacle-free grid with in-bounds start and end, bidirectional
\* search and BFS both end with Found, and the path of either has as many
\* edges as the Manhattan distance between start and end, hence as many as
\* the other's.
C33_BidirectionalAsShortAsBFS ==
    (alg \in {"bidirectional", "bfs"} /\ obstacles = {} /\ StartEndInBounds
     /\ Terminated)
        => /\ Last(events)[1] = "found"
           /\ Len(Last(events)[2]) - 1 = manhattan_distance(start, end)

\* the two sides of a bidirectional search have met away from both ends, four
\* moves apart
C33_Witness ==
    /\ alg = "bidirectional" /\ obstacles = {} /\ StartEndInBounds
    /\ pc = "found"
    /\ manhattan_distance(start, end) = 4
    /\ current \notin {start, end}
    /\ Len(Last(events)[2]) = 5

\* C34: for every algorithm and in-bounds start and end, no coordinate
\* occurs twice in an emitted Found path.
C34_FoundPathSimple ==
    (StartEndInBounds /\ pc = "found") => NoDuplicates(Last(events)[2])

\* C35: in random walk with in-bounds start and end, a run whose walker has
\* stood on end (its current position was end at some step, the position
\* after the last move included) ends with Found: at NoPath the walker is
\* not on end and no Exploring event names end.
C35_WalkerOnEndFound ==
    (alg = "random_walk" /\ StartEndInBounds /\ pc = "no_path")
        => /\ current # end
           /\ \A i \in 1..Len(events) :
                 events[i][1] = "exploring" => events[i][2] # end

\* a step of move(): the snake has moved or has died
IsMove ==
    /\ snake_game.pc = "loop" /\ snake_game.alive
    /\ \/ snake_game'.snake # snake_game.snake
       \/ ~snake_game'.alive

Opposite(d) == <<-d[1], -d[2]>>

NoReversal ==
    (IsMove /\ snake_game.moved # None)
        => snake_game.direction # Opposite(snake_game.moved)

\* C36: whatever directions are consumed by the update_direction calls
\* between two consecutive move() calls of a game, the second move() does not
\* use the exact opposite of the direction the first has used.
C36_NoTurnBackIntoNeck == [][NoReversal]_vars

\* C37: while the snake is alive, after reset() and after every move(),
\* len(snake) = 3 + score, the snake's cells are pairwise distinct and inside
\* the logical grid, and the food is not on a snake cell.
C37_SnakeWellFormed ==
    (snake_game.pc = "loop" /\ snake_game.alive)
        => /\ Len(snake_game.snake) = 3 + snake_game.score
           /\ NoDuplicates(snake_game.snake)
           /\ \A c \in Range(snake_game.snake) :
                 InBounds(c, snake_game.grid, snake_game.grid)
           /\ snake_game.food \notin Range(snake_game.snake)

\* the lines of a byte sequence that end with a newline, in order
RECURSIVE CompleteLines(_)
CompleteLines(bytes) ==
    IF \A i \in 1..Len(bytes) : bytes[i] # NL THEN <<>>
    ELSE LET i == CHOOSE j \in 1..Len(bytes) :
                     /\ bytes[j] = NL
                     /\ \A k \in 1..(j - 1) : bytes[k] # NL
         IN <<SubSeq(bytes, 1, i - 1)>>
               \o CompleteLines(SubSeq(bytes, i + 1, Len(bytes)))

\* a line is a message of the documented form, {"key": ..., "is_down": ...,
\* "ts": <float>}, and its key is an arrow key
ArrowMessage(line) ==
    LET msg == json_loads(line) IN
    /\ ~msg.raised
    /\ msg.ts.number
    /\ msg.key \in {"up", "down", "left", "right"}

\* one event for every arrow message among the lines, in their order
RECURSIVE ArrowEvents(_)
ArrowEvents(lines) ==
    IF lines = <<>> THEN <<>>
    ELSE LET msg == json_loads(Head(lines))
         IN (IF ArrowMessage(Head(lines))
             THEN << <<msg.key, msg.is_down, msg.ts.value>> >>
             ELSE <<>>) \o ArrowEvents(Tail(lines))

\* C31: however the bytes of the connection are split over recv calls, the
\* queue holds, in arrival order, exactly one event for every complete
\* newline-terminated arrow message received so far; other lines (other keys,
\* text that is no message of the documented form) add nothing and do not
\* keep later messages from being queued.
C31_OneEventPerArrowMessage ==
    sock.event_queue =
        ArrowEvents(CompleteLines(SubSeq(sock.stream, 1, sock.received)))

\* every piece of the stream has arrived in a recv of its own; an arrow
\* message, a line cut short and another arrow message were sent, and the
\* two events are queued in that order
C31_Witness ==
    /\ sock.received = Len(sock.stream)
    /\ sock.recvs = Len(sock.stream)
    /\ Len(CompleteLines(sock.stream)) = 3
    /\ ~ArrowMessage(CompleteLines(sock.stream)[2])
    /\ CompleteLines(sock.stream)[2] # <<>>
    /\ sock.event_queue = << <<"up", TRUE, "1.5">>, <<"left", FALSE, "1.5">> >>

\* the DOWN (TRUE) and UP (FALSE) marks of the queued events of key k
KeyEvents(k) ==
    LET of_k == SelectSeq(hid.event_queue, LAMBDA e : e[1] = k)
    IN [i \in 1..Len(of_k) |-> of_k[i][2]]

\* DOWN, UP, DOWN, ... from the first event on
Alternates(marks) ==
    \A i \in 1..Len(marks) : marks[i] = (i % 2 = 1)

\* C38: for each arrow key the queued events alternate DOWN, UP, DOWN, ...
\* starting with DOWN; after a processed report key_states is true exactly
\* for the arrow keys of that report; error_count is the number of reads
\* that have raised since the latest read that has not, and the loop has
\* stopped itself exactly when that number has reached max_errors.
C38_ReportsAndErrors ==
    /\ \A k \in Keys : Alternates(KeyEvents(k))
    /\ hid.data # <<>> => hid.key_states = ReportKeys(hid.data)
    /\ hid.error_count = hid.failed_in_a_row
    /\ hid.failed_in_a_row >= max_errors
          <=> (hid.thread = "exited" /\ hid.error_count >= max_errors)
====
